---- MODULE Spec2Model ----
(***************************************************************************)
(* Model of the issue scoring and contextual analysis engine of            *)
(* issue-contributor (src/issue_analyzer.py).                              *)
(*                                                                         *)
(* Text is modelled as a sequence of one-character strings, so that        *)
(* len(), str.lower() and the substring test `in` are computed on the      *)
(* characters and not assumed.                                             *)
(***************************************************************************)
EXTENDS Integers, Sequences, FiniteSets, TLC

VARIABLES
    issue,            \* the issue snapshot handed to the functions
    issue_templates,  \* dict name -> {section name -> text}, in insertion order
    now,              \* the wall clock, read by datetime.now()
    score,            \* result of the last score_issue call
    scored_at,        \* clock value of the last score_issue call, -1 before it
    category,         \* result of classify_issue, NotRun before it
    closed_issues,    \* the stream repo.get_issues(state='closed')
    limit,            \* the limit argument of find_similar_resolved_issues
    similar_issues,   \* result of find_similar_resolved_issues
    similar_done,     \* find_similar_resolved_issues has returned
    repo,             \* the repository: its tree and the contents of its files
    analysis,         \* outcome of the last analyze_issue call
    previous,         \* outcome of the analyze_issue call before the last
    open_issues,      \* the stream repo.get_issues(state='open', labels=labels)
    keywords,         \* the keywords argument of get_open_issues
    open_limit,       \* the limit argument of get_open_issues
    selected,         \* result of get_open_issues: (issue, score) pairs
    report,           \* the issues written to contribution_guide.md by main
    pc,               \* where main is: "start", "loop", "done" or "raised"
    source,           \* the text handed to calculate_code_complexity
    complexity,       \* <<result>> of calculate_code_complexity, <<>> before it
    suggestions,      \* <<result>> of suggest_automated_fix, <<>> before it
    related,          \* the related_files argument of identify_test_files
    frames,           \* the call stack of identify_test_files and its walk
    listing_calls,    \* the paths passed to repo.get_contents, in call order
    walk_result,      \* what identify_test_files returned
    walk_pc           \* where the walk is: "start", "walk", "done", "raised"

analysis_vars == <<repo, analysis, previous>>
main_vars == <<open_issues, keywords, open_limit, selected, report, pc>>
unit_vars == <<source, complexity, suggestions>>
walk_vars == <<related, frames, listing_calls, walk_result, walk_pc>>

vars == <<issue, issue_templates, now, score, scored_at, category,
          closed_issues, limit, similar_issues, similar_done,
          analysis_vars, main_vars, unit_vars, walk_vars>>

NotRun == "not run"

\* analyze_issue has not been called
NoAnalysis == [status |-> "none"]

\* the repository and main are not part of the run
AnalysisIdle ==
    /\ repo = [entries |-> <<>>, root_fails |-> FALSE]
    /\ analysis = NoAnalysis
    /\ previous = NoAnalysis

MainIdle ==
    /\ open_issues = <<>>
    /\ keywords = <<>>
    /\ open_limit = 0
    /\ selected = <<>>
    /\ report = <<>>
    /\ pc = "idle"

\* no single function is called on its own and no walk is under way
UnitIdle ==
    /\ source = <<>>
    /\ complexity = <<>>
    /\ suggestions = <<>>

WalkIdle ==
    /\ related = <<>>
    /\ frames = <<>>
    /\ listing_calls = <<>>
    /\ walk_result = <<>>
    /\ walk_pc = "idle"

(***************************************************************************)
(* Bounds of the model.                                                    *)
(***************************************************************************)
MaxLabels == 2
MaxTicks == 1
UnitsPerDay == 2
MaxClosed == 6

(***************************************************************************)
(* Text helpers: str.lower(), `p in s`, len().                             *)
(***************************************************************************)
UpperCase == <<"A","B","C","D","E","F","G","H","I","J","K","L","M",
               "N","O","P","Q","R","S","T","U","V","W","X","Y","Z">>
LowerCase == <<"a","b","c","d","e","f","g","h","i","j","k","l","m",
               "n","o","p","q","r","s","t","u","v","w","x","y","z">>

LowerChar(c) ==
    IF \E i \in 1..Len(UpperCase) : UpperCase[i] = c
    THEN LowerCase[CHOOSE i \in 1..Len(UpperCase) : UpperCase[i] = c]
    ELSE c

\* str.lower()
Lower(s) == [i \in 1..Len(s) |-> LowerChar(s[i])]

\* the substring test `p in s`; the empty string is in every string
Contains(s, p) ==
    \/ Len(p) = 0
    \/ \E i \in 1..(Len(s) - Len(p) + 1) :
          /\ s[i] = p[1]
          /\ SubSeq(s, i, i + Len(p) - 1) = p

\* text followed by filler up to n characters
Pad(text, n) == text \o [i \in 1..(n - Len(text)) |-> "."]

Range(q) == {q[k] : k \in 1..Len(q)}

\* all sequences without repetition of at most n elements of S
RECURSIVE SeqsNoRep(_, _)
SeqsNoRep(S, n) ==
    IF n = 0 THEN {<<>>}
    ELSE LET shorter == SeqsNoRep(S, n - 1)
         IN  shorter \cup
             UNION {{Append(q, x) : x \in S \ Range(q)} :
                       q \in {r \in shorter : Len(r) = n - 1}}

(***************************************************************************)
(* issue.body is None or a string; `issue.body or ''`.                     *)
(***************************************************************************)
NoBody == [none |-> TRUE, text |-> <<>>]
SomeBody(text) == [none |-> FALSE, text |-> text]
BodyOrEmpty(i) == IF i.body.none THEN <<>> ELSE i.body.text

(***************************************************************************)
(* score_issue                                                             *)
(***************************************************************************)
good_first_issue == <<"g","o","o","d"," ","f","i","r","s","t"," ","i","s","s","u","e">>
help_wanted == <<"h","e","l","p"," ","w","a","n","t","e","d">>

ApproachableLabels == {good_first_issue, help_wanted}

\* the label test without lower()
LabelScoreCaseSensitive(i) ==
    IF \E k \in 1..Len(i.labels) : i.labels[k] \in ApproachableLabels
    THEN 5 ELSE 0

LabelScore(i) ==
    IF \E k \in 1..Len(i.labels) : Lower(i.labels[k]) \in ApproachableLabels
    THEN 5 ELSE 0

\* the upper bound of the +3 tier taken as exclusive
DescriptionScoreExclusive(i) ==
    LET description_length == Len(BodyOrEmpty(i))
    IN  IF 100 <= description_length /\ description_length < 500 THEN 3
        ELSE IF 50 <= description_length /\ description_length < 100 THEN 2
        ELSE 0

DescriptionScore(i) ==
    LET description_length == Len(BodyOrEmpty(i))
    IN  IF 100 <= description_length /\ description_length <= 500 THEN 3
        ELSE IF 50 <= description_length /\ description_length < 100 THEN 2
        ELSE 0

\* the +1 tier taken as comment_count <= 5
CommentScoreInclusive(i) ==
    LET comment_count == i.comments
    IN  IF comment_count = 0 THEN 2
        ELSE IF comment_count <= 5 THEN 1
        ELSE 0

CommentScore(i) ==
    LET comment_count == i.comments
    IN  IF comment_count = 0 THEN 2
        ELSE IF comment_count < 5 THEN 1
        ELSE 0

\* the age rounded up to whole days instead of floored
DaysOldRoundedUp(i, t) == 0 - ((i.created_at - t) \div UnitsPerDay)

\* (datetime.now(tz) - issue.created_at).days: timedelta.days floors
DaysOld(i, t) == (t - i.created_at) \div UnitsPerDay

AgeScore(i, t) ==
    LET days_old == DaysOld(i, t)
    IN  IF days_old < 30 THEN 2
        ELSE IF days_old < 90 THEN 1
        ELSE 0

\* any() in place of all()
TemplateSatisfiedAnySection(template, body) ==
    \E k \in 1..Len(template.sections) : Contains(body, template.sections[k])

\* all(section in (issue.body or '') for section in template_content.keys())
TemplateSatisfied(template, body) ==
    \A k \in 1..Len(template.sections) : Contains(body, template.sections[k])

\* the loop without its break: every satisfied template adds 3
RECURSIVE TemplateLoopNoBreak(_, _, _)
TemplateLoopNoBreak(templates, k, body) ==
    IF k > Len(templates) THEN 0
    ELSE IF TemplateSatisfied(templates[k], body)
         THEN 3 + TemplateLoopNoBreak(templates, k + 1, body)
    ELSE TemplateLoopNoBreak(templates, k + 1, body)

\* the loop over issue_templates.items() from position k, with its break
RECURSIVE TemplateLoop(_, _, _)
TemplateLoop(templates, k, body) ==
    IF k > Len(templates) THEN 0
    ELSE IF TemplateSatisfied(templates[k], body) THEN 3
    ELSE TemplateLoop(templates, k + 1, body)

TemplateScore(i, templates) ==
    IF Len(templates) = 0 THEN 0
    ELSE TemplateLoop(templates, 1, BodyOrEmpty(i))

score_issue(i, templates, t) ==
    LabelScore(i) + DescriptionScore(i) + CommentScore(i) + AgeScore(i, t)
      + TemplateScore(i, templates)

(***************************************************************************)
(* Inputs of the scorer.                                                   *)
(***************************************************************************)
lbl_bug == <<"b","u","g">>
lbl_Help_Wanted == <<"H","e","l","p"," ","W","a","n","t","e","d">>

lbl_Good_First_Issue ==
    <<"G","o","o","d"," ","F","i","r","s","t"," ","I","s","s","u","e">>

ScoreLabelNames == {lbl_bug, lbl_Help_Wanted, lbl_Good_First_Issue}

h_steps == <<"S","t","e","p","s">>
h_expected == <<"E","x","p","e","c","t","e","d">>
h_motivation == <<"M","o","t","i","v","a","t","i","o","n">>

bug_report == [name |-> "bug_report", sections |-> <<h_steps, h_expected>>]
feature_request == [name |-> "feature_request", sections |-> <<h_motivation>>]

TemplateSets ==
    {<<>>, <<bug_report>>, <<bug_report, feature_request>>,
     <<feature_request, bug_report>>}

txt_steps == h_steps
txt_steps_expected == h_steps \o <<" ">> \o h_expected
txt_all == txt_steps_expected \o <<" ">> \o h_motivation

BodyLengths == {0, 49, 50, 99, 100, 500, 501}

ScoreBodies ==
    {NoBody}
      \cup {SomeBody(Pad(<<>>, n)) : n \in BodyLengths}
      \cup {SomeBody(b) : b \in {txt_steps, txt_steps_expected, txt_all}}
      \cup {SomeBody(Pad(b, 100)) : b \in {txt_steps_expected, txt_all}}
      \cup {SomeBody(Pad(txt_all, 501))}

CommentCounts == {0, 1, 4, 5, 6}

\* creation instants: just created, 29 days ago, one unit short of 30 days
\* ago, one unit short of 90 days ago (the clock starts at 0)
CreationInstants ==
    {0, 0 - 29 * UnitsPerDay, 1 - 30 * UnitsPerDay, 1 - 90 * UnitsPerDay}

t_fix_login == <<"F","i","x"," ","l","o","g","i","n">>

InitScore ==
    /\ issue \in [number : {1}, title : {t_fix_login},
                  body : ScoreBodies,
                  labels : SeqsNoRep(ScoreLabelNames, MaxLabels),
                  comments : CommentCounts,
                  created_at : CreationInstants]
    /\ issue_templates \in TemplateSets
    /\ now = 0
    /\ score = 0
    /\ scored_at = -1
    /\ category = NotRun
    /\ closed_issues = <<>>
    /\ limit = 0
    /\ similar_issues = <<>>
    /\ similar_done = FALSE
    /\ AnalysisIdle
    /\ MainIdle
    /\ UnitIdle
    /\ WalkIdle

\* the wall clock advances
Tick ==
    /\ now < MaxTicks
    /\ now' = now + 1
    /\ UNCHANGED <<unit_vars, walk_vars,
                   issue, issue_templates, score, scored_at, category,
                   closed_issues, limit, similar_issues, similar_done,
                   analysis_vars, main_vars>>

\* a call score_issue(issue, issue_templates)
ScoreIssue ==
    /\ score' = score_issue(issue, issue_templates, now)
    /\ scored_at' = now
    /\ UNCHANGED <<unit_vars, walk_vars,
                   issue, issue_templates, now, category,
                   closed_issues, limit, similar_issues, similar_done,
                   analysis_vars, main_vars>>

NextScore == Tick \/ ScoreIssue

SpecScore == InitScore /\ [][NextScore]_vars

scored == scored_at >= 0

(***************************************************************************)
(* classify_issue                                                          *)
(***************************************************************************)
kw_bug == <<"b","u","g">>
kw_error == <<"e","r","r","o","r">>
kw_problem == <<"p","r","o","b","l","e","m">>
kw_fail == <<"f","a","i","l">>
kw_defect == <<"d","e","f","e","c","t">>
kw_broken == <<"b","r","o","k","e","n">>
kw_feature_request == <<"f","e","a","t","u","r","e"," ","r","e","q","u","e","s","t">>
kw_enhancement == <<"e","n","h","a","n","c","e","m","e","n","t">>
kw_new_feature == <<"n","e","w"," ","f","e","a","t","u","r","e">>
kw_add == <<"a","d","d">>
kw_request == <<"r","e","q","u","e","s","t">>
kw_documentation == <<"d","o","c","u","m","e","n","t","a","t","i","o","n">>
kw_docs == <<"d","o","c","s">>
kw_typo == <<"t","y","p","o">>
kw_readme == <<"r","e","a","d","m","e">>
kw_wiki == <<"w","i","k","i">>
kw_question == <<"q","u","e","s","t","i","o","n">>
kw_help == <<"h","e","l","p">>
kw_how_to == <<"h","o","w"," ","t","o">>
kw_how_do_i == <<"h","o","w"," ","d","o"," ","i">>
kw_qmark == <<"?">>
kw_improve == <<"i","m","p","r","o","v","e">>
kw_optimization == <<"o","p","t","i","m","i","z","a","t","i","o","n">>
kw_performance == <<"p","e","r","f","o","r","m","a","n","c","e">>

cat_bug ==
    [name |-> "bug",
     keywords |-> <<kw_bug, kw_error, kw_problem, kw_fail, kw_defect, kw_broken>>]
cat_feature_request ==
    [name |-> "feature request",
     keywords |-> <<kw_feature_request, kw_enhancement, kw_new_feature, kw_add,
                    kw_request>>]
cat_documentation ==
    [name |-> "documentation",
     keywords |-> <<kw_documentation, kw_docs, kw_typo, kw_readme, kw_wiki>>]
cat_question ==
    [name |-> "question",
     keywords |-> <<kw_question, kw_help, kw_how_to, kw_how_do_i, kw_qmark>>]
cat_enhancement ==
    [name |-> "enhancement",
     keywords |-> <<kw_enhancement, kw_improve, kw_optimization, kw_performance>>]

\* the rules with the enhancement category declared first
categoriesEnhancementFirst ==
    <<cat_enhancement, cat_bug, cat_feature_request, cat_documentation,
      cat_question>>

\* the dict of classification rules, in insertion order
categories ==
    <<cat_bug, cat_feature_request, cat_documentation, cat_question,
      cat_enhancement>>

NoCategory == "no category"

\* the loop "Check labels first" from position k: exact membership of a
\* keyword in the list of lowercased label names
RECURSIVE LabelLoop(_, _)
LabelLoop(labels, k) ==
    IF k > Len(categories) THEN NoCategory
    ELSE IF \E j \in 1..Len(categories[k].keywords) :
                categories[k].keywords[j] \in Range(labels)
         THEN categories[k].name
    ELSE LabelLoop(labels, k + 1)

\* the second loop looking at the title only
RECURSIVE TextLoopTitleOnly(_, _, _)
TextLoopTitleOnly(title, body, k) ==
    IF k > Len(categories) THEN NoCategory
    ELSE IF \E j \in 1..Len(categories[k].keywords) :
                Contains(title, categories[k].keywords[j])
         THEN categories[k].name
    ELSE TextLoopTitleOnly(title, body, k + 1)

\* the loop "Check title and body" from position k: a keyword is a
\* substring of the lowercased title or body
RECURSIVE TextLoop(_, _, _)
TextLoop(title, body, k) ==
    IF k > Len(categories) THEN NoCategory
    ELSE IF \E j \in 1..Len(categories[k].keywords) :
                \/ Contains(title, categories[k].keywords[j])
                \/ Contains(body, categories[k].keywords[j])
         THEN categories[k].name
    ELSE TextLoop(title, body, k + 1)

\* the two passes in the opposite order
classify_issueTextFirst(i) ==
    LET title == Lower(i.title)
        body == Lower(BodyOrEmpty(i))
        labels == [k \in 1..Len(i.labels) |-> Lower(i.labels[k])]
    IN  IF TextLoop(title, body, 1) # NoCategory THEN TextLoop(title, body, 1)
        ELSE IF LabelLoop(labels, 1) # NoCategory THEN LabelLoop(labels, 1)
        ELSE "other"

classify_issue(i) ==
    LET title == Lower(i.title)
        body == Lower(BodyOrEmpty(i))
        labels == [k \in 1..Len(i.labels) |-> Lower(i.labels[k])]
    IN  IF LabelLoop(labels, 1) # NoCategory THEN LabelLoop(labels, 1)
        ELSE IF TextLoop(title, body, 1) # NoCategory THEN TextLoop(title, body, 1)
        ELSE "other"

(***************************************************************************)
(* Inputs of the classifier.                                               *)
(***************************************************************************)
lbl_Bug ==
    <<"B","u","g">>
lbl_enhancement ==
    <<"e","n","h","a","n","c","e","m","e","n","t">>
lbl_Enhancement ==
    <<"E","n","h","a","n","c","e","m","e","n","t">>
lbl_Performance ==
    <<"P","e","r","f","o","r","m","a","n","c","e">>
lbl_wontfix ==
    <<"w","o","n","t","f","i","x">>
t_new_feature ==
    <<"N","e","w"," ","f","e","a","t","u","r","e">>
t_bug_in_parser ==
    <<"B","u","g"," ","i","n"," ","p","a","r","s","e","r">>
t_improve_speed ==
    <<"I","m","p","r","o","v","e"," ","s","p","e","e","d">>
t_how_to ==
    <<"H","o","w"," ","t","o","?">>
txt_broken ==
    <<"I","t"," ","i","s"," ","b","r","o","k","e","n">>
txt_address ==
    <<"a","d","d","r","e","s","s">>
txt_optimization ==
    <<"O","p","t","i","m","i","z","a","t","i","o","n"," ","i","d","e","a">>

ClassifyLabelNames ==
    {lbl_Bug, lbl_enhancement, lbl_Enhancement, lbl_Performance, lbl_wontfix}

ClassifyTitles ==
    {t_fix_login, t_new_feature, t_bug_in_parser, t_improve_speed, t_how_to}

ClassifyBodies ==
    {NoBody, SomeBody(<<>>), SomeBody(txt_broken), SomeBody(txt_address),
     SomeBody(txt_optimization)}

InitClassify ==
    /\ issue \in [number : {1}, title : ClassifyTitles,
                  body : ClassifyBodies,
                  labels : SeqsNoRep(ClassifyLabelNames, MaxLabels),
                  comments : {0},
                  created_at : {0}]
    /\ issue_templates = <<>>
    /\ now = 0
    /\ score = 0
    /\ scored_at = -1
    /\ category = NotRun
    /\ closed_issues = <<>>
    /\ limit = 0
    /\ similar_issues = <<>>
    /\ similar_done = FALSE
    /\ AnalysisIdle
    /\ MainIdle
    /\ UnitIdle
    /\ WalkIdle

\* a call classify_issue(issue)
ClassifyIssue ==
    /\ category = NotRun
    /\ category' = classify_issue(issue)
    /\ UNCHANGED <<unit_vars, walk_vars,
                   issue, issue_templates, now, score, scored_at,
                   closed_issues, limit, similar_issues, similar_done,
                   analysis_vars, main_vars>>

NextClassify == ClassifyIssue

SpecClassify == InitClassify /\ [][NextClassify]_vars

classified == category # NotRun

(***************************************************************************)
(* find_similar_resolved_issues                                            *)
(*                                                                         *)
(* difflib.SequenceMatcher(None, a, b).ratio() is computed on the          *)
(* characters: the longest matching block, the blocks to its left and to   *)
(* its right, and 2 * matches / (len(a) + len(b)).  The automatic junk     *)
(* heuristic of difflib only applies to a second string of 200 characters  *)
(* or more and is not part of the model.  A ratio is kept as a fraction in *)
(* lowest terms; two fractions are equal exactly when the floats are.      *)
(***************************************************************************)
DefaultLimit == 5

RECURSIVE CommonPrefix(_, _, _, _, _, _)
CommonPrefix(a, i, ahi, b, j, bhi) ==
    IF i > ahi \/ j > bhi THEN 0
    ELSE IF a[i] # b[j] THEN 0
    ELSE 1 + CommonPrefix(a, i + 1, ahi, b, j + 1, bhi)

Maximum(S) == CHOOSE x \in S : \A y \in S : y <= x
Minimum(S) == CHOOSE x \in S : \A y \in S : x <= y

\* SequenceMatcher.find_longest_match on a[alo..ahi] and b[blo..bhi]: the
\* longest block, of those the one starting earliest in a, of those the
\* one starting earliest in b
find_longest_match(a, alo, ahi, b, blo, bhi) ==
    LET size == [p \in (alo..ahi) \X (blo..bhi) |->
                    CommonPrefix(a, p[1], ahi, b, p[2], bhi)]
        sizes == {size[p] : p \in DOMAIN size}
        bestsize == IF sizes = {} THEN 0 ELSE Maximum(sizes)
    IN  IF bestsize = 0 THEN <<alo, blo, 0>>
        ELSE LET besti == Minimum({p[1] : p \in {q \in DOMAIN size :
                                                    size[q] = bestsize}})
                 bestj == Minimum({p[2] : p \in {q \in DOMAIN size :
                                      q[1] = besti /\ size[q] = bestsize}})
             IN  <<besti, bestj, bestsize>>

\* the total size of SequenceMatcher.get_matching_blocks
RECURSIVE matches(_, _, _, _, _, _)
matches(a, alo, ahi, b, blo, bhi) ==
    LET m == find_longest_match(a, alo, ahi, b, blo, bhi)
        i == m[1]
        j == m[2]
        k == m[3]
    IN  IF k = 0 THEN 0
        ELSE k + (IF alo < i /\ blo < j
                    THEN matches(a, alo, i - 1, b, blo, j - 1) ELSE 0)
               + (IF i + k <= ahi /\ j + k <= bhi
                    THEN matches(a, i + k, ahi, b, j + k, bhi) ELSE 0)

RECURSIVE GCD(_, _)
GCD(x, y) == IF y = 0 THEN x ELSE GCD(y, x % y)

Fraction(n, d) == [num |-> n \div GCD(n, d), den |-> d \div GCD(n, d)]

\* SequenceMatcher(None, a, b).ratio()
ratio(a, b) ==
    LET length == Len(a) + Len(b)
    IN  IF length = 0 THEN Fraction(1, 1)
        ELSE Fraction(2 * matches(a, 1, Len(a), b, 1, Len(b)), length)

Greater(x, y) == x.num * y.den > y.num * x.den

\* the threshold taken as similarity >= 0.5
AboveThresholdInclusive(similarity) == ~Greater(Fraction(1, 2), similarity)

\* similarity > 0.5
AboveThreshold(similarity) == Greater(similarity, Fraction(1, 2))

\* the loop that does not skip the analysed issue itself
RECURSIVE SimilarLoopNoSkip(_, _, _)
SimilarLoopNoSkip(i, closed, k) ==
    IF k > Len(closed) THEN <<>>
    ELSE LET similarity == ratio(i.title, closed[k].title)
         IN  IF AboveThreshold(similarity)
             THEN <<<<closed[k], similarity>>>>
                     \o SimilarLoopNoSkip(i, closed, k + 1)
             ELSE SimilarLoopNoSkip(i, closed, k + 1)

\* the loop over the closed issues from position k
RECURSIVE SimilarLoop(_, _, _)
SimilarLoop(i, closed, k) ==
    IF k > Len(closed) THEN <<>>
    ELSE IF closed[k].number = i.number THEN SimilarLoop(i, closed, k + 1)
    ELSE LET similarity == ratio(i.title, closed[k].title)
         IN  IF AboveThreshold(similarity)
             THEN <<<<closed[k], similarity>>>> \o SimilarLoop(i, closed, k + 1)
             ELSE SimilarLoop(i, closed, k + 1)

\* x placed into the sorted list s behind every element that is not smaller
RECURSIVE Insert(_, _)
Insert(s, x) ==
    IF s = <<>> THEN <<x>>
    ELSE IF Greater(x[2], s[1][2]) THEN <<x>> \o s
    ELSE <<s[1]>> \o Insert(Tail(s), x)

\* the sort without reverse=True: ascending and stable
RECURSIVE InsertAscending(_, _)
InsertAscending(s, x) ==
    IF s = <<>> THEN <<x>>
    ELSE IF Greater(s[1][2], x[2]) THEN <<x>> \o s
    ELSE <<s[1]>> \o InsertAscending(Tail(s), x)

RECURSIVE SortAscendingFrom(_, _, _)
SortAscendingFrom(s, k, sorted) ==
    IF k > Len(s) THEN sorted
    ELSE SortAscendingFrom(s, k + 1, InsertAscending(sorted, s[k]))

sortBySimilarityAscending(s) == SortAscendingFrom(s, 1, <<>>)

RECURSIVE SortFrom(_, _, _)
SortFrom(s, k, sorted) ==
    IF k > Len(s) THEN sorted
    ELSE SortFrom(s, k + 1, Insert(sorted, s[k]))

\* list.sort(key=lambda x: x[1], reverse=True): descending and stable
sortBySimilarity(s) == SortFrom(s, 1, <<>>)

\* the slice s[:n]
Slice(s, n) ==
    IF n >= 0 THEN SubSeq(s, 1, IF n < Len(s) THEN n ELSE Len(s))
    ELSE SubSeq(s, 1, Len(s) + n)

find_similar_resolved_issues(i, closed, n) ==
    Slice(sortBySimilarity(SimilarLoop(i, closed, 1)), n)

(***************************************************************************)
(* Inputs of the similarity ranker.                                        *)
(***************************************************************************)
t_fix_logout == <<"F","i","x"," ","l","o","g","o","u","t">>
t_fix == <<"F","i","x">>

IssueTitles == {t_fix_login, t_fix}
ClosedTitles == {t_fix_login, t_fix_logout, t_fix}

\* the closed issues carry the numbers 2, 3, ... in stream order
ClosedStreams ==
    UNION {{[k \in 1..n |-> [number |-> k + 1, title |-> titles[k]]] :
              titles \in [1..n -> ClosedTitles]} : n \in 0..MaxClosed}

InitSimilar ==
    /\ issue \in [number : {1, 2}, title : IssueTitles,
                  body : {NoBody},
                  labels : {<<>>},
                  comments : {0},
                  created_at : {0}]
    /\ issue_templates = <<>>
    /\ now = 0
    /\ score = 0
    /\ scored_at = -1
    /\ category = NotRun
    /\ closed_issues \in ClosedStreams
    /\ limit \in {2, DefaultLimit}
    /\ similar_issues = <<>>
    /\ similar_done = FALSE
    /\ AnalysisIdle
    /\ MainIdle
    /\ UnitIdle
    /\ WalkIdle

\* a call find_similar_resolved_issues(repo, issue, limit)
FindSimilar ==
    /\ ~similar_done
    /\ similar_issues' = find_similar_resolved_issues(issue, closed_issues, limit)
    /\ similar_done' = TRUE
    /\ UNCHANGED <<unit_vars, walk_vars,
                   issue, issue_templates, now, score, scored_at, category,
                   closed_issues, limit, analysis_vars, main_vars>>

NextSimilar == FindSimilar

SpecSimilar == InitSimilar /\ [][NextSimilar]_vars

(***************************************************************************)
(* Properties of score_issue, checked under SpecScore.                     *)
(***************************************************************************)
HasApproachableLabel ==
    \E l \in Range(issue.labels) :
        Lower(l) = good_first_issue \/ Lower(l) = help_wanted

\* the age in whole days seen by a call at instant t
WholeDays(t) == (t - issue.created_at) \div UnitsPerDay

SatisfiedTemplates ==
    {k \in 1..Len(issue_templates) :
        \A h \in Range(issue_templates[k].sections) :
            Contains(BodyOrEmpty(issue), h)}

\* the table of signals of the scorer, for the call recorded in the state
ExpectedScore ==
    LET n == Len(BodyOrEmpty(issue))
        c == issue.comments
        age == WholeDays(scored_at)
    IN  (IF HasApproachableLabel THEN 5 ELSE 0)
          + (IF n \in 100..500 THEN 3 ELSE IF n \in 50..99 THEN 2 ELSE 0)
          + (IF c = 0 THEN 2 ELSE IF c \in 1..4 THEN 1 ELSE 0)
          + (IF age < 30 THEN 2 ELSE IF age \in 30..89 THEN 1 ELSE 0)
          + (IF SatisfiedTemplates # {} THEN 3 ELSE 0)

\* C1: score_issue returns exactly the sum of the points of the satisfied
\* signals (label +5; body length +3 / +2; comments +2 / +1; age +2 / +1;
\* template +3), each evaluated independently.
C1_ScoreIsSumOfSignals == scored => score = ExpectedScore

\* a call where the second tier of comments and of age, the label, the body
\* length and the template signal all contribute
C1_Witness ==
    /\ scored
    /\ score = 13
    /\ issue.comments = 4
    /\ WholeDays(scored_at) = 30

\* C2 (as claimed): a second call on the same snapshot and templates, made
\* at the current clock value, returns the recorded score.
C2_SecondCallSameScore ==
    scored => score_issue(issue, issue_templates, now) = score

\* C2 (amended): a second call on the same snapshot and templates returns
\* the recorded score whenever both calls see the same age in whole days.
C2_SameScoreAtSameAge ==
    (scored /\ WholeDays(now) = WholeDays(scored_at))
        => score_issue(issue, issue_templates, now) = score

\* a second call at a later instant of the same day
C2_Witness ==
    /\ scored
    /\ now > scored_at
    /\ WholeDays(now) = WholeDays(scored_at)
    /\ score_issue(issue, issue_templates, now) = score

WithLabel(i, l) == [i EXCEPT !.labels = Append(@, l)]

\* the issue does not carry the label 'help wanted' yet
LacksHelpWanted == \A l \in Range(issue.labels) : Lower(l) # help_wanted

HasGoodFirstIssue == \E l \in Range(issue.labels) : Lower(l) = good_first_issue

\* C3 (as claimed): adding the label 'help wanted' to an issue that does
\* not carry it raises the score by exactly 5.
C3_HelpWantedAddsFive ==
    (scored /\ LacksHelpWanted) =>
        score_issue(WithLabel(issue, help_wanted), issue_templates, scored_at)
            = score + 5

\* C3 (amended): adding the label 'help wanted' to an issue that does not
\* carry it raises the score by exactly 5 when no label of the issue is
\* 'good first issue' (case-insensitively), and leaves the score unchanged
\* when one is.
C3_HelpWantedAddsFiveOnce ==
    (scored /\ LacksHelpWanted) =>
        score_issue(WithLabel(issue, help_wanted), issue_templates, scored_at)
            = score + (IF HasGoodFirstIssue THEN 0 ELSE 5)

\* a scored issue with a label, none of them approachable
C3_Witness ==
    /\ scored
    /\ Len(issue.labels) > 0
    /\ ~HasApproachableLabel
    /\ score_issue(WithLabel(issue, help_wanted), issue_templates, scored_at)
            = score + 5

\* what the body length contributed to the recorded score: the score less
\* the template bonus, less the score of the same issue with a null body
BodyLengthContribution ==
    (score - (IF SatisfiedTemplates # {} THEN 3 ELSE 0))
        - score_issue([issue EXCEPT !.body = NoBody], <<>>, scored_at)

\* C4: the body length contributes +3 at length 100 and at length 500, +2
\* at length 99, 0 at length 501 and 0 below 50 (a null body has length 0).
C4_BodyLengthBoundaries ==
    scored =>
        LET n == Len(BodyOrEmpty(issue))
        IN  /\ (n = 100 \/ n = 500) => BodyLengthContribution = 3
            /\ n = 99 => BodyLengthContribution = 2
            /\ n = 501 => BodyLengthContribution = 0
            /\ n < 50 => BodyLengthContribution = 0

\* a scored issue whose body has exactly 500 characters
C4_Witness ==
    /\ scored
    /\ Len(BodyOrEmpty(issue)) = 500
    /\ BodyLengthContribution = 3

\* what the templates contributed to the recorded score
TemplateContribution == score - score_issue(issue, <<>>, scored_at)

\* C5: the template bonus is awarded at most once: +3 when at least one
\* template is satisfied, however many are, and 0 otherwise.
C5_TemplateBonusOnce ==
    scored =>
        TemplateContribution = (IF SatisfiedTemplates # {} THEN 3 ELSE 0)

\* a scored issue whose body satisfies two templates
C5_Witness ==
    /\ scored
    /\ Cardinality(SatisfiedTemplates) >= 2
    /\ TemplateContribution = 3

(***************************************************************************)
(* Properties of classify_issue, checked under SpecClassify.               *)
(***************************************************************************)
\* the declared order of the categories
CategoryOrder ==
    <<"bug", "feature request", "documentation", "question", "enhancement">>

\* the trigger phrases of the category called c
Triggers(c) ==
    UNION {Range(categories[k].keywords) :
              k \in {j \in 1..Len(categories) : categories[j].name = c}}

\* some label, lowercased, equals a trigger phrase of category c
LabelTriggers(i, c) == \E l \in Range(i.labels) : Lower(l) \in Triggers(c)

\* some trigger phrase of category c occurs in the lowercased title or body
TextTriggers(i, c) ==
    \E kw \in Triggers(c) :
        \/ Contains(Lower(i.title), kw)
        \/ Contains(Lower(BodyOrEmpty(i)), kw)

LabelMatches(i) == {k \in 1..Len(CategoryOrder) : LabelTriggers(i, CategoryOrder[k])}
TextMatches(i) == {k \in 1..Len(CategoryOrder) : TextTriggers(i, CategoryOrder[k])}

First(S) == CHOOSE k \in S : \A j \in S : k <= j

WithText(i, t, b) == [i EXCEPT !.title = t, !.body = b]

\* C6: when some label equals a trigger phrase, the category is the one of
\* the label pass, whatever the title and the body contain.
C6_LabelPassDecides ==
    (classified /\ LabelMatches(issue) # {}) =>
        /\ category = CategoryOrder[First(LabelMatches(issue))]
        /\ \A t \in ClassifyTitles, b \in ClassifyBodies :
              classify_issue(WithText(issue, t, b)) = category

\* labels ['Bug'] and a title with "feature" in it, classified as bug
C6_Witness ==
    /\ classified
    /\ issue.labels = <<lbl_Bug>>
    /\ issue.title = t_new_feature
    /\ TextTriggers(issue, "feature request")
    /\ category = "bug"

BothPresent(i) ==
    /\ LabelTriggers(i, "bug") \/ TextTriggers(i, "bug")
    /\ LabelTriggers(i, "enhancement") \/ TextTriggers(i, "enhancement")

\* C7 (as claimed): an issue in which a bug trigger and an enhancement
\* trigger are both present, in labels, title or body, is classified bug.
C7_BugOverEnhancement ==
    (classified /\ BothPresent(issue)) => category = "bug"

\* C7 (amended): such an issue is classified bug when a bug trigger is
\* among its labels, or when no label equals a trigger of any category.
C7_BugOverEnhancementInPass ==
    (classified /\ BothPresent(issue)
       /\ (LabelTriggers(issue, "bug") \/ LabelMatches(issue) = {}))
        => category = "bug"

\* both triggers in the title and body only, classified as bug
C7_Witness ==
    /\ classified
    /\ LabelMatches(issue) = {}
    /\ TextTriggers(issue, "bug")
    /\ TextTriggers(issue, "enhancement")
    /\ category = "bug"

\* C8: each pass returns the first category, in the order bug, feature
\* request, documentation, question, enhancement, that has a matching
\* trigger; 'other' is returned exactly when neither pass has a match.
C8_FirstMatchInOrder ==
    classified =>
        /\ category =
              (IF LabelMatches(issue) # {}
                 THEN CategoryOrder[First(LabelMatches(issue))]
               ELSE IF TextMatches(issue) # {}
                 THEN CategoryOrder[First(TextMatches(issue))]
               ELSE "other")
        /\ category = "other"
              <=> (LabelMatches(issue) = {} /\ TextMatches(issue) = {})

\* no label matches and the title and body match two categories or more
C8_Witness ==
    /\ classified
    /\ LabelMatches(issue) = {}
    /\ Cardinality(TextMatches(issue)) >= 2
    /\ category = CategoryOrder[First(TextMatches(issue))]

\* an issue with a label and no trigger anywhere is classified other
C8_WitnessOther ==
    /\ classified
    /\ Len(issue.labels) > 0
    /\ category = "other"

(***************************************************************************)
(* Properties of find_similar_resolved_issues, checked under SpecSimilar.  *)
(***************************************************************************)
\* the ratios of the titles of the model
RatioTable == {<<a, b, ratio(a, b)>> : a \in IssueTitles, b \in ClosedTitles}

\* the similarity of the analysed issue's title and the title of c
TitleRatio(c) ==
    (CHOOSE e \in RatioTable : e[1] = issue.title /\ e[2] = c.title)[3]

ReturnedIssues == {similar_issues[k][1] : k \in 1..Len(similar_issues)}

\* the closed issues other than the analysed one
Candidates == {c \in Range(closed_issues) : c.number # issue.number}

\* C9: every returned pair has a similarity strictly greater than 0.5; a
\* candidate whose ratio is at most 0.5 is never returned.
C9_OnlyAboveHalf ==
    similar_done =>
        /\ \A k \in 1..Len(similar_issues) :
              /\ similar_issues[k][1] \in Range(closed_issues)
              /\ similar_issues[k][2] = TitleRatio(similar_issues[k][1])
              /\ 2 * similar_issues[k][2].num > similar_issues[k][2].den
        /\ \A c \in Range(closed_issues) :
              2 * TitleRatio(c).num <= TitleRatio(c).den => c \notin ReturnedIssues

\* a run that returns an issue and drops a candidate of ratio exactly 0.5
C9_Witness ==
    /\ similar_done
    /\ similar_issues # <<>>
    /\ \E c \in Candidates :
          /\ 2 * TitleRatio(c).num = TitleRatio(c).den
          /\ c \notin ReturnedIssues

\* the position of the closed issue c in the stream
Position(c) == CHOOSE k \in 1..Len(closed_issues) : closed_issues[k] = c

\* the candidates that pass the threshold
Survivors == {c \in Candidates : 2 * TitleRatio(c).num > TitleRatio(c).den}

\* c comes before d in the descending stable order of the survivors
Before(c, d) ==
    \/ Greater(TitleRatio(c), TitleRatio(d))
    \/ TitleRatio(c) = TitleRatio(d) /\ Position(c) < Position(d)

\* C10: the result holds the first `limit` survivors in descending order
\* of similarity, equal similarities in stream order: its length is the
\* smaller of limit and the number of survivors, and no survivor left out
\* comes before a returned one in that order.
C10_TopLimitStableDescending ==
    similar_done =>
        /\ Len(similar_issues) <= limit
        /\ Len(similar_issues) =
              (IF Cardinality(Survivors) < limit
                 THEN Cardinality(Survivors) ELSE limit)
        /\ ReturnedIssues \subseteq Survivors
        /\ \A k \in 1..Len(similar_issues) :
              similar_issues[k][2] = TitleRatio(similar_issues[k][1])
        /\ \A k, l \in 1..Len(similar_issues) :
              k < l => Before(similar_issues[k][1], similar_issues[l][1])
        /\ \A c \in Survivors \ ReturnedIssues, d \in ReturnedIssues :
              Before(d, c)

\* more survivors than the default limit, two returned issues of equal
\* similarity, and a returned issue moved ahead of an earlier one
C10_Witness ==
    /\ similar_done
    /\ limit = DefaultLimit
    /\ Cardinality(Survivors) > limit
    /\ \E k \in 1..(Len(similar_issues) - 1) :
          similar_issues[k][2] = similar_issues[k + 1][2]
    /\ \E k, l \in 1..Len(similar_issues) :
          k < l /\ Position(similar_issues[k][1]) > Position(similar_issues[l][1])

(***************************************************************************)
(* find_mentioned_files                                                    *)
(*                                                                         *)
(* re.findall of \b(?:[\w-]+/)*[\w-]+\.[a-zA-Z]+\b, computed on the        *)
(* characters.  A segment [\w-]+ can hold neither '/' nor '.', so a match  *)
(* from a given start is the maximal runs seg/seg/.../seg.letters, and the *)
(* scan goes on behind a match or one character further.                   *)
(***************************************************************************)
Letters == Range(UpperCase) \cup Range(LowerCase)
Digits == {"0","1","2","3","4","5","6","7","8","9"}
WordChars == Letters \cup Digits \cup {"_"}
SegmentChars == WordChars \cup {"-"}

\* \b in front of position p (1..Len(text)+1)
WordBoundary(text, p) ==
    (p > 1 /\ text[p - 1] \in WordChars)
        # (p <= Len(text) /\ text[p] \in WordChars)

\* the position behind the maximal run of characters of S that starts at p
RECURSIVE RunEnd(_, _, _)
RunEnd(text, p, S) ==
    IF p > Len(text) THEN p
    ELSE IF text[p] \in S THEN RunEnd(text, p + 1, S)
    ELSE p

\* the position behind (?:[\w-]+/)*[\w-]+\.[a-zA-Z]+\b matched at q, or 0
RECURSIVE PathEnd(_, _)
PathEnd(text, q) ==
    LET e == RunEnd(text, q, SegmentChars)
    IN  IF e = q \/ e > Len(text) THEN 0
        ELSE IF text[e] = "/" THEN PathEnd(text, e + 1)
        ELSE IF text[e] = "."
             THEN LET x == RunEnd(text, e + 1, Letters)
                  IN  IF x > e + 1 /\ WordBoundary(text, x) THEN x ELSE 0
        ELSE 0

\* the position behind the match of the whole pattern at p, or 0
MatchEnd(text, p) == IF WordBoundary(text, p) THEN PathEnd(text, p) ELSE 0

\* re.findall from position p on
RECURSIVE FindAll(_, _)
FindAll(text, p) ==
    IF p > Len(text) THEN <<>>
    ELSE LET e == MatchEnd(text, p)
         IN  IF e > 0 THEN <<SubSeq(text, p, e - 1)>> \o FindAll(text, e)
             ELSE FindAll(text, p + 1)

\* list(set(re.findall(file_pattern, text))), as the set it lists
find_mentioned_files(text) ==
    IF Len(text) = 0 THEN {} ELSE Range(FindAll(text, 1))


(***************************************************************************)
(* The repository as the functions see it through repo.get_contents: a     *)
(* tree of directories and files in listing order.  A file carries its     *)
(* bytes: whether they decode as UTF-8 and, if so, the decoded text.  Of a *)
(* text the model keeps what the functions read from it: its length, the   *)
(* syntax tree ast.parse builds (or that it raises SyntaxError), and what  *)
(* the import pattern and the test-function pattern find in it.            *)
(***************************************************************************)
Node(type, children) == [type |-> type, children |-> children]

Text(length, parses, tree, imports, test_functions) ==
    [length |-> length, parses |-> parses, tree |-> tree,
     imports |-> imports, test_functions |-> test_functions]

EmptyText == Text(0, TRUE, Node("Module", <<>>), <<>>, <<>>)

Decodable(text) == [decodes |-> TRUE, text |-> text]
Undecodable == [decodes |-> FALSE, text |-> EmptyText]

File(path, content) == [path |-> path, type |-> "file", content |-> content]
Dir(path) == [path |-> path, type |-> "dir", content |-> Undecodable]

NoError == "no error"
Return(value) == [error |-> NoError, value |-> value]
Raise(error) == [error |-> error, value |-> <<>>]

LastSlash(path) == Maximum({0} \cup {k \in 1..Len(path) : path[k] = "/"})
\* the directory a path lies in, <<>> for the root
Dirname(path) == SubSeq(path, 1, LastSlash(path) - 1)
\* content.name
Basename(path) == SubSeq(path, LastSlash(path) + 1, Len(path))

StartsWith(s, p) == Len(p) <= Len(s) /\ SubSeq(s, 1, Len(p)) = p
EndsWith(s, p) ==
    Len(p) <= Len(s) /\ SubSeq(s, Len(s) - Len(p) + 1, Len(s)) = p

Entries(r, path) == {e \in Range(r.entries) : e.path = path}
Listing(r, dir_path) ==
    SelectSeq(r.entries, LAMBDA e : Dirname(e.path) = dir_path)

\* repo.get_contents(path): the file, the listing of the directory, or
\* GithubException
get_contents(r, path) ==
    IF Len(path) = 0
    THEN IF r.root_fails THEN Raise("GithubException")
         ELSE Return(Listing(r, path))
    ELSE IF Entries(r, path) = {} THEN Raise("GithubException")
    ELSE LET e == CHOOSE x \in Entries(r, path) : TRUE
         IN  IF e.type = "dir" THEN Return(Listing(r, path)) ELSE Return(e)

(***************************************************************************)
(* get_file_content: None for a path whose lookup raises GithubException;  *)
(* the decode of undecodable bytes raises UnicodeDecodeError, which is not *)
(* caught.  The paths it is given end in a file extension and name files.  *)
(***************************************************************************)
None == "None"
NoContent == [none |-> TRUE, text |-> EmptyText]
Content(text) == [none |-> FALSE, text |-> text]

get_file_content(r, file_path) ==
    LET content == get_contents(r, file_path)
    IN  IF content.error # NoError THEN Return(NoContent)
        ELSE IF ~content.value.content.decodes THEN Raise("UnicodeDecodeError")
        ELSE Return(Content(content.value.content.text))

\* `if content:` (a string that is neither None nor empty)
Truthy(content) == ~content.none /\ content.text.length > 0

(***************************************************************************)
(* identify_related_files.  The mentions are collected in a set; `order`   *)
(* is the order in which the set is iterated, and the result lists the     *)
(* confirmed paths.                                                        *)
(***************************************************************************)
RECURSIVE CommentMentions(_, _)
CommentMentions(comments, k) ==
    IF k > Len(comments) THEN {}
    ELSE find_mentioned_files(IF comments[k].none THEN <<>> ELSE comments[k].text)
            \cup CommentMentions(comments, k + 1)

\* related_files behind the loop over the comments
Mentions(i) ==
    find_mentioned_files(BodyOrEmpty(i)) \cup CommentMentions(i.comment_bodies, 1)

\* the orders in which a set can be listed
Orders(S) == {q \in SeqsNoRep(S, Cardinality(S)) : Len(q) = Cardinality(S)}

\* the loop stops at the first path whose lookup fails
RECURSIVE ExistingLoopStopping(_, _, _)
ExistingLoopStopping(r, order, k) ==
    IF k > Len(order) THEN <<>>
    ELSE IF get_contents(r, order[k]).error = NoError
         THEN <<order[k]>> \o ExistingLoopStopping(r, order, k + 1)
    ELSE <<>>

\* for file_path in related_files: try ... except GithubException: pass
RECURSIVE ExistingLoop(_, _, _)
ExistingLoop(r, order, k) ==
    IF k > Len(order) THEN <<>>
    ELSE IF get_contents(r, order[k]).error = NoError
         THEN <<order[k]>> \o ExistingLoop(r, order, k + 1)
    ELSE ExistingLoop(r, order, k + 1)

\* the variant that reads the issue body only
identify_related_filesBodyOnly(r, i, order) ==
    ExistingLoop(r, SelectSeq(order,
                    LAMBDA p : p \in find_mentioned_files(BodyOrEmpty(i))), 1)

identify_related_files(r, i, order) ==
    ExistingLoop(r, SelectSeq(order, LAMBDA p : p \in Mentions(i)), 1)

(***************************************************************************)
(* extract_code_snippets: re.findall of the fenced code blocks (three      *)
(* backquotes, anything, lazily, three backquotes) and then of the inline  *)
(* code (a backquote, one or more characters that are neither a backquote  *)
(* nor a newline, a backquote), on the characters.                         *)
(***************************************************************************)
\* the character U+0060, which a TLA+ string cannot hold
Backquote == "backquote"
Fence == <<Backquote, Backquote, Backquote>>

IsFence(text, p) == p + 2 <= Len(text) /\ SubSeq(text, p, p + 2) = Fence

\* the first position from p on where a fence starts, or 0
RECURSIVE NextFence(_, _)
NextFence(text, p) ==
    IF p + 2 > Len(text) THEN 0
    ELSE IF IsFence(text, p) THEN p
    ELSE NextFence(text, p + 1)

RECURSIVE CodeBlocks(_, _)
CodeBlocks(text, p) ==
    IF p > Len(text) THEN <<>>
    ELSE LET close == IF IsFence(text, p) THEN NextFence(text, p + 3) ELSE 0
         IN  IF close > 0
             THEN <<SubSeq(text, p, close + 2)>> \o CodeBlocks(text, close + 3)
             ELSE CodeBlocks(text, p + 1)

RECURSIVE InlineEnd(_, _)
InlineEnd(text, p) ==
    IF p > Len(text) THEN p
    ELSE IF text[p] \in {Backquote, "\n"} THEN p
    ELSE InlineEnd(text, p + 1)

RECURSIVE InlineCode(_, _)
InlineCode(text, p) ==
    IF p > Len(text) THEN <<>>
    ELSE LET e == IF text[p] = Backquote THEN InlineEnd(text, p + 1) ELSE 0
         IN  IF e > p + 1 /\ e <= Len(text) /\ text[e] = Backquote
             THEN <<SubSeq(text, p, e)>> \o InlineCode(text, e + 1)
             ELSE InlineCode(text, p + 1)

extract_code_snippets(text) == CodeBlocks(text, 1) \o InlineCode(text, 1)


(***************************************************************************)
(* The per-file extractors of analyze_issue.  Each is a loop over a list   *)
(* of paths that fills a dict; an exception that get_file_content lets     *)
(* through ends the loop and the caller.                                   *)
(***************************************************************************)
EmptyDict == <<>>
\* d[key] = value
Put(d, key, value) == (key :> value) @@ d

ext_py == <<".","p","y">>
ext_js == <<".","j","s">>

\* for file in related_files, from position k
RECURSIVE DependencyLoop(_, _, _, _)
DependencyLoop(r, related_files, k, dependency_info) ==
    IF k > Len(related_files) THEN Return(dependency_info)
    ELSE LET file == related_files[k]
             content == get_file_content(r, file)
         IN  IF content.error # NoError THEN Raise(content.error)
             ELSE IF Truthy(content.value)
                     /\ (EndsWith(file, ext_py) \/ EndsWith(file, ext_js))
                  THEN DependencyLoop(r, related_files, k + 1,
                          Put(dependency_info, file,
                              Range(content.value.text.imports)))
             ELSE DependencyLoop(r, related_files, k + 1, dependency_info)

analyze_dependencies(r, related_files) ==
    DependencyLoop(r, related_files, 1, EmptyDict)

s_test == <<"t","e","s","t">>
s_test_ == <<"t","e","s","t","_">>
s__test_py == <<"_","t","e","s","t",".","p","y">>

\* 'test' in file.lower() or file.startswith('test_') or
\* file.endswith('_test.py')
IsTestPath(file) ==
    \/ Contains(Lower(file), s_test)
    \/ StartsWith(file, s_test_)
    \/ EndsWith(file, s__test_py)

\* content.name.startswith('test_') or content.name.endswith('_test.py')
IsTestName(name) == StartsWith(name, s_test_) \/ EndsWith(name, s__test_py)

RECURSIVE find_test_files_in_dir(_, _)
\* for content in contents, from position k
RECURSIVE WalkLoop(_, _, _)
WalkLoop(r, contents, k) ==
    IF k > Len(contents) THEN <<>>
    ELSE LET content == contents[k]
         IN  (IF content.type = "file" /\ IsTestName(Basename(content.path))
              THEN <<content.path>>
              ELSE IF content.type = "dir"
                   THEN find_test_files_in_dir(r, content.path)
              ELSE <<>>) \o WalkLoop(r, contents, k + 1)

find_test_files_in_dir(r, dir_path) ==
    WalkLoop(r, get_contents(r, dir_path).value, 1)

\* the loop over the root listing, from position k
RECURSIVE RootLoop(_, _, _)
RootLoop(r, contents, k) ==
    IF k > Len(contents) THEN <<>>
    ELSE LET content == contents[k]
         IN  (IF content.type = "dir" /\ Contains(Lower(content.path), s_test)
              THEN find_test_files_in_dir(r, content.path)
              ELSE <<>>) \o RootLoop(r, contents, k + 1)

\* the variant without the search of the repository
identify_test_filesNoWalk(r, related_files) ==
    Return(SelectSeq(related_files, IsTestPath))

identify_test_files(r, related_files) ==
    LET test_files == SelectSeq(related_files, IsTestPath)
    IN  IF Len(test_files) > 0 THEN Return(test_files)
        ELSE LET contents == get_contents(r, <<>>)
             IN  IF contents.error # NoError THEN Raise(contents.error)
                 ELSE Return(RootLoop(r, contents.value, 1))

\* for file in test_files, from position k
RECURSIVE TestCaseLoop(_, _, _, _)
TestCaseLoop(r, test_files, k, test_cases) ==
    IF k > Len(test_files) THEN Return(test_cases)
    ELSE LET file == test_files[k]
             content == get_file_content(r, file)
         IN  IF content.error # NoError THEN Raise(content.error)
             ELSE IF Truthy(content.value)
                     /\ Len(content.value.text.test_functions) > 0
                  THEN TestCaseLoop(r, test_files, k + 1,
                          Put(test_cases, file,
                              content.value.text.test_functions))
             ELSE TestCaseLoop(r, test_files, k + 1, test_cases)

extract_test_cases(r, test_files) == TestCaseLoop(r, test_files, 1, EmptyDict)

(***************************************************************************)
(* calculate_code_complexity: ComplexityVisitor starts at 0 and adds 1 at  *)
(* every node of a counted type; generic_visit goes through the children.  *)
(***************************************************************************)
\* the node types counted by calculate_cyclomatic_complexity of
\* repo_analyzer.py, taken for those of the visitor
CountedNodesCyclomatic == {"If", "While", "For", "And", "Or"}

CountedNodes == {"FunctionDef", "ClassDef", "If", "While", "For"}

RECURSIVE visit(_)
RECURSIVE generic_visit(_, _)
generic_visit(children, k) ==
    IF k > Len(children) THEN 0
    ELSE visit(children[k]) + generic_visit(children, k + 1)

visit(node) ==
    (IF node.type \in CountedNodes THEN 1 ELSE 0)
        + generic_visit(node.children, 1)

Unknown == [none |-> TRUE, value |-> 0]
Known(value) == [none |-> FALSE, value |-> value]

calculate_code_complexity(text) ==
    IF text.parses THEN Known(visit(text.tree)) ELSE Unknown

\* for file in related_files, from position k
RECURSIVE ComplexityLoop(_, _, _, _)
ComplexityLoop(r, related_files, k, complexity_analysis) ==
    IF k > Len(related_files) THEN Return(complexity_analysis)
    ELSE LET file == related_files[k]
             content == get_file_content(r, file)
         IN  IF content.error # NoError THEN Raise(content.error)
             ELSE IF Truthy(content.value)
                     /\ ~calculate_code_complexity(content.value.text).none
                  THEN ComplexityLoop(r, related_files, k + 1,
                          Put(complexity_analysis, file,
                              calculate_code_complexity(content.value.text).value))
             ELSE ComplexityLoop(r, related_files, k + 1, complexity_analysis)

\* the variant that looks at every file of the repository
analyze_code_area_complexityAllFiles(r, related_files) ==
    LET files == SelectSeq(r.entries,
                     LAMBDA e : e.type = "file" /\ e.content.decodes)
    IN  ComplexityLoop(r, [k \in 1..Len(files) |-> files[k].path], 1,
                       EmptyDict)

analyze_code_area_complexity(r, related_files) ==
    ComplexityLoop(r, related_files, 1, EmptyDict)

(***************************************************************************)
(* suggest_automated_fix                                                   *)
(*                                                                         *)
(* The suggestions are texts; the refactoring suggestion is the fixed      *)
(* sentence followed by ', '.join of the flagged files.  A dict is         *)
(* iterated in insertion order: code_area_complexity and                   *)
(* dependency_context were filled by loops over related_files, so their    *)
(* keys come in the order of related_files.                                *)
(***************************************************************************)
msg_bug ==
    <<"C","o","n","s","i","d","e","r"," ","a","d","d","i","n","g"," ","e","r",
      "r","o","r"," ","h","a","n","d","l","i","n","g"," ","o","r"," ","i","n",
      "p","u","t"," ","v","a","l","i","d","a","t","i","o","n",".">>
msg_feature_request ==
    <<"S","t","a","r","t"," ","b","y"," ","c","r","e","a","t","i","n","g"," ",
      "a"," ","n","e","w"," ","f","u","n","c","t","i","o","n"," ","o","r"," ",
      "c","l","a","s","s"," ","t","o"," ","i","m","p","l","e","m","e","n","t",
      " ","t","h","e"," ","r","e","q","u","e","s","t","e","d"," ","f","e","a",
      "t","u","r","e",".">>
msg_documentation ==
    <<"U","p","d","a","t","e"," ","t","h","e"," ","r","e","l","e","v","a","n",
      "t"," ","d","o","c","u","m","e","n","t","a","t","i","o","n"," ","f","i",
      "l","e","s"," ","o","r"," ","a","d","d"," ","i","n","l","i","n","e"," ",
      "c","o","m","m","e","n","t","s"," ","t","o"," ","c","l","a","r","i","f",
      "y"," ","t","h","e"," ","c","o","d","e",".">>
msg_refactor ==
    <<"C","o","n","s","i","d","e","r"," ","r","e","f","a","c","t","o","r","i",
      "n","g"," ","t","h","e"," ","f","o","l","l","o","w","i","n","g"," ","h",
      "i","g","h","-","c","o","m","p","l","e","x","i","t","y"," ","f","i","l",
      "e","s",":"," ">>
msg_add_tests ==
    <<"A","d","d"," ","n","e","w"," ","t","e","s","t"," ","c","a","s","e","s",
      " ","t","o"," ","c","o","v","e","r"," ","t","h","e"," ","c","h","a","n",
      "g","e","s"," ","y","o","u","'","r","e"," ","m","a","k","i","n","g",
      ".">>
msg_update_tests ==
    <<"U","p","d","a","t","e"," ","e","x","i","s","t","i","n","g"," ","t","e",
      "s","t"," ","c","a","s","e","s"," ","t","o"," ","r","e","f","l","e","c",
      "t"," ","y","o","u","r"," ","c","h","a","n","g","e","s",".">>
s_comma_space ==
    <<","," ">>

\* sep.join(list), from position k
RECURSIVE Join(_, _, _)
Join(list, sep, k) ==
    IF k > Len(list) THEN <<>>
    ELSE IF k = Len(list) THEN list[k]
    ELSE list[k] \o sep \o Join(list, sep, k + 1)

\* the keys of a dict filled by a loop over related_files, in dict order
Keys(d, related_files) == SelectSeq(related_files, LAMBDA f : f \in DOMAIN d)

CategoryAdvice(issue_category) ==
    IF issue_category = "bug" THEN <<msg_bug>>
    ELSE IF issue_category = "feature request" THEN <<msg_feature_request>>
    ELSE IF issue_category = "documentation" THEN <<msg_documentation>>
    ELSE <<>>

\* the threshold taken as complexity >= 10
HighComplexityInclusive(file_complexity) == file_complexity >= 10

\* complexity > 10
HighComplexity(file_complexity) == file_complexity > 10

RefactoringAdvice(issue_analysis) ==
    LET high_complexity_files ==
            SelectSeq(Keys(issue_analysis.code_area_complexity,
                           issue_analysis.related_files),
                      LAMBDA file :
                          HighComplexity(
                              issue_analysis.code_area_complexity[file]))
    IN  IF Len(high_complexity_files) > 0
        THEN <<msg_refactor \o Join(high_complexity_files, s_comma_space, 1)>>
        ELSE <<>>

\* the test advice given only when no test case was found
TestAdviceOnlyWhenMissing(test_cases) ==
    IF DOMAIN test_cases = {} THEN <<msg_add_tests>> ELSE <<>>

TestAdvice(test_cases) ==
    IF DOMAIN test_cases = {} THEN <<msg_add_tests>> ELSE <<msg_update_tests>>

suggest_automated_fix(issue_analysis) ==
    CategoryAdvice(issue_analysis.category)
        \o RefactoringAdvice(issue_analysis)
        \o TestAdvice(issue_analysis.test_cases)

(***************************************************************************)
(* generate_context_aware_guide                                            *)
(*                                                                         *)
(* The guide is kept as its sections, each with the items it lists; a      *)
(* section under `if` is present when its list or dict is not empty.       *)
(***************************************************************************)
Section(heading, items) == [heading |-> heading, items |-> items]

\* format(similarity, '.2f') in hundredths: the nearest, a tie to the even
Hundredths(similarity) ==
    LET n == 100 * similarity.num
        d == similarity.den
        q == n \div d
    IN  IF 2 * (n % d) > d THEN q + 1
        ELSE IF 2 * (n % d) = d /\ q % 2 = 1 THEN q + 1
        ELSE q

StepsToContribute ==
    <<"Fork the repository", "Clone your fork locally",
      "Create a new branch for your changes",
      "Make the necessary changes, following the automated fix suggestions",
      "Add or update tests as needed",
      "Commit your changes with a descriptive commit message",
      "Push your changes to your fork",
      "Create a pull request, referencing this issue">>

generate_context_aware_guide(issue_analysis, automated_fix_suggestions) ==
    LET dependencies == Keys(issue_analysis.dependency_context,
                             issue_analysis.related_files)
        similar == issue_analysis.similar_resolved_issues
    IN  <<Section("Context-Aware Contribution Guide for Issue",
                  <<issue_analysis.issue_number>>),
          Section("Issue Overview",
                  <<issue_analysis.title, issue_analysis.category,
                    Join(issue_analysis.labels, s_comma_space, 1)>>),
          Section("Related Files", issue_analysis.related_files)>>
        \o (IF Len(dependencies) > 0
            THEN <<Section("Dependency Context",
                     [k \in 1..Len(dependencies) |->
                        <<dependencies[k],
                          issue_analysis.dependency_context[dependencies[k]]>>])>>
            ELSE <<>>)
        \o (IF Len(issue_analysis.test_files) > 0
            THEN <<Section("Related Test Files", issue_analysis.test_files)>>
            ELSE <<>>)
        \o (IF Len(similar) > 0
            THEN <<Section("Similar Resolved Issues",
                     [k \in 1..Len(similar) |->
                        <<similar[k][1].number, similar[k][1].title,
                          Hundredths(similar[k][2])>>])>>
            ELSE <<>>)
        \o <<Section("Automated Fix Suggestions", automated_fix_suggestions),
             Section("Steps to Contribute", StepsToContribute)>>

(***************************************************************************)
(* parse_issue_template of src/repo_analyzer.py                            *)
(*                                                                         *)
(* re.split(r'^##\s+', content, flags=re.MULTILINE)[1:], computed on the   *)
(* characters: a header is '##' at the start of a line followed by white   *)
(* space, and \s+ takes the whole run of white space, line ends included.  *)
(* Only the keys of the parsed template are read by the analyzer.          *)
(***************************************************************************)
Newline == "\n"
Whitespace == {" ", "\t", Newline}

\* ^##\s at position p
HeaderAt(content, p) ==
    /\ p = 1 \/ content[p - 1] = Newline
    /\ p + 2 <= Len(content)
    /\ content[p] = "#"
    /\ content[p + 1] = "#"
    /\ content[p + 2] \in Whitespace

\* the first header at or behind position q, 0 if there is none
NextHeader(content, q) ==
    LET headers == {p \in q..Len(content) : HeaderAt(content, p)}
    IN  IF headers = {} THEN 0
        ELSE CHOOSE p \in headers : \A h \in headers : p <= h

\* the pieces behind the headers found from position q on
RECURSIVE SectionsFrom(_, _)
SectionsFrom(content, q) ==
    LET header == NextHeader(content, q)
        start == RunEnd(content, header + 2, Whitespace)
        next == NextHeader(content, start)
    IN  IF header = 0 THEN <<>>
        ELSE <<SubSeq(content, start,
                      IF next = 0 THEN Len(content) ELSE next - 1)>>
                \o SectionsFrom(content, start)

\* str.strip()
RECURSIVE Strip(_)
Strip(text) ==
    IF text = <<>> THEN text
    ELSE IF text[1] \in Whitespace THEN Strip(Tail(text))
    ELSE IF text[Len(text)] \in Whitespace
         THEN Strip(SubSeq(text, 1, Len(text) - 1))
    ELSE text

\* text.split('\n')[0]
FirstLine(text) ==
    LET ends == {p \in 1..Len(text) : text[p] = Newline}
    IN  IF ends = {} THEN text
        ELSE SubSeq(text, 1, (CHOOSE p \in ends : \A e \in ends : p <= e) - 1)

\* the keys of parsed_template in insertion order, filled from position k
RECURSIVE SectionNames(_, _, _)
SectionNames(sections, k, names) ==
    IF k > Len(sections) THEN names
    ELSE LET section_name == Strip(FirstLine(Strip(sections[k])))
         IN  SectionNames(sections, k + 1,
                          IF section_name \in Range(names) THEN names
                          ELSE Append(names, section_name))

parse_issue_template(content) ==
    SectionNames(SectionsFrom(content, 1), 1, <<>>)

(***************************************************************************)
(* analyze_issue                                                           *)
(***************************************************************************)
NoTemplateMatch ==
    [follows_template |-> FALSE, template_name |-> None,
     filled_sections |-> <<>>]

\* the loop without its break: the last satisfied template is recorded
RECURSIVE AdherenceLoopNoBreak(_, _, _)
AdherenceLoopNoBreak(templates, k, body) ==
    IF k > Len(templates) THEN NoTemplateMatch
    ELSE LET later == AdherenceLoopNoBreak(templates, k + 1, body)
         IN  IF later.follows_template THEN later
             ELSE IF \A s \in 1..Len(templates[k].sections) :
                        Contains(body, templates[k].sections[s])
                  THEN [follows_template |-> TRUE,
                        template_name |-> templates[k].name,
                        filled_sections |-> templates[k].sections]
             ELSE NoTemplateMatch

\* for template_name, template_content in issue_templates.items(), from k
RECURSIVE AdherenceLoop(_, _, _)
AdherenceLoop(templates, k, body) ==
    IF k > Len(templates) THEN NoTemplateMatch
    ELSE IF \A s \in 1..Len(templates[k].sections) :
               Contains(body, templates[k].sections[s])
         THEN [follows_template |-> TRUE,
               template_name |-> templates[k].name,
               filled_sections |-> templates[k].sections]
    ELSE AdherenceLoop(templates, k + 1, body)

\* [comment.body or '' for comment in issue.get_comments()]
CommentTexts(i) ==
    [k \in 1..Len(i.comment_bodies) |->
        IF i.comment_bodies[k].none THEN <<>> ELSE i.comment_bodies[k].text]

\* for comment in analysis["comments"]: code_snippets.extend(...), from k
RECURSIVE CommentSnippets(_, _)
CommentSnippets(comments, k) ==
    IF k > Len(comments) THEN <<>>
    ELSE extract_code_snippets(comments[k]) \o CommentSnippets(comments, k + 1)

Raised(error) == [status |-> "raised", error |-> error]

analyze_issue(r, i, templates, closed, order) ==
    LET body == BodyOrEmpty(i)
        comments == CommentTexts(i)
        related_files == identify_related_files(r, i, order)
        adherence == IF Len(templates) = 0 THEN NoTemplateMatch
                     ELSE AdherenceLoop(templates, 1, body)
        dependency_context == analyze_dependencies(r, related_files)
        test_files == identify_test_files(r, related_files)
        test_cases == extract_test_cases(r, test_files.value)
        code_area_complexity == analyze_code_area_complexity(r, related_files)
    IN  IF dependency_context.error # NoError
        THEN Raised(dependency_context.error)
        ELSE IF test_files.error # NoError THEN Raised(test_files.error)
        ELSE IF test_cases.error # NoError THEN Raised(test_cases.error)
        ELSE IF code_area_complexity.error # NoError
             THEN Raised(code_area_complexity.error)
        ELSE LET analysis_so_far ==
                     [status |-> "ok",
                      issue_number |-> i.number,
                      title |-> i.title,
                      body |-> body,
                      labels |-> i.labels,
                      comments |-> comments,
                      follows_template |-> adherence.follows_template,
                      template_name |-> adherence.template_name,
                      filled_sections |-> adherence.filled_sections,
                      related_files |-> related_files,
                      category |-> classify_issue(i),
                      code_snippets |-> extract_code_snippets(body)
                                           \o CommentSnippets(comments, 1),
                      dependency_context |-> dependency_context.value,
                      test_files |-> test_files.value,
                      test_cases |-> test_cases.value,
                      similar_resolved_issues |->
                          find_similar_resolved_issues(i, closed, DefaultLimit),
                      code_area_complexity |-> code_area_complexity.value]
                 automated_fix_suggestions ==
                     suggest_automated_fix(analysis_so_far)
             IN  analysis_so_far
                    @@ [automated_fix_suggestions |->
                            automated_fix_suggestions,
                        context_aware_guide |->
                            generate_context_aware_guide(
                                analysis_so_far, automated_fix_suggestions)]


(***************************************************************************)
(* Inputs of analyze_issue: a repository tree, with or without a tests     *)
(* directory and a binary fixture in it, whose root listing succeeds or    *)
(* raises; issue bodies and comments that mention its paths.               *)
(***************************************************************************)
p_src == <<"s","r","c">>
p_tests == <<"t","e","s","t","s">>
p_docs == <<"d","o","c","s">>
p_pkg == <<"p","k","g">>
p_src_main_py == p_src \o <<"/","m","a","i","n",".","p","y">>
p_tests_test_main_py == p_tests \o <<"/","t","e","s","t","_","m","a","i","n",".","p","y">>
p_tests_test_logo_png == p_tests \o <<"/","t","e","s","t","_","l","o","g","o",".","p","n","g">>
p_docs_logo_png == p_docs \o <<"/","l","o","g","o",".","p","n","g">>
p_pkg_init_py == p_pkg \o <<"/","_","_","i","n","i","t","_","_",".","p","y">>
p_README_md == <<"R","E","A","D","M","E",".","m","d">>
p_version_py == <<"v","e","r","s","i","o","n",".","p","y">>
p_missing_py == <<"m","i","s","s","i","n","g",".","p","y">>

\* import os / import re / import os; def main(): if ...: for ...: ...;
\* class App: def run(self): ...
src_main ==
    Text(120, TRUE,
         Node("Module",
              <<Node("Import", <<>>), Node("Import", <<>>),
                Node("Import", <<>>),
                Node("FunctionDef",
                     <<Node("If", <<Node("For", <<Node("Expr", <<>>)>>)>>)>>),
                Node("ClassDef",
                     <<Node("FunctionDef", <<Node("Pass", <<>>)>>)>>)>>),
         <<"os", "re", "os">>, <<>>)

\* from main import main; def test_main(): ...; def test_run(): ...
src_test_main ==
    Text(80, TRUE,
         Node("Module",
              <<Node("ImportFrom", <<>>),
                Node("FunctionDef", <<Node("Assert", <<>>)>>),
                Node("FunctionDef", <<Node("Assert", <<>>)>>)>>),
         <<"main">>, <<"test_main", "test_run">>)

\* __version__ = '1.0'
src_version == Text(20, TRUE, Node("Module", <<Node("Assign", <<>>)>>), <<>>, <<>>)

\* Markdown, which is no Python source: ast.parse raises SyntaxError
src_readme == Text(200, FALSE, Node("Module", <<>>), <<>>, <<>>)

SourceEntries ==
    <<File(p_README_md, Decodable(src_readme)),
      Dir(p_docs),
      File(p_docs_logo_png, Undecodable),
      Dir(p_pkg),
      File(p_pkg_init_py, Decodable(EmptyText)),
      Dir(p_src),
      File(p_src_main_py, Decodable(src_main)),
      File(p_version_py, Decodable(src_version))>>

TestEntries ==
    <<Dir(p_tests), File(p_tests_test_main_py, Decodable(src_test_main))>>

FixtureEntries == <<File(p_tests_test_logo_png, Undecodable)>>

Trees ==
    {SourceEntries,
     SourceEntries \o TestEntries,
     SourceEntries \o TestEntries \o FixtureEntries}

\* the listing of the root succeeds, or it raises for the tree with tests
Repos ==
    [entries : Trees, root_fails : {FALSE}]
        \cup {[entries |-> SourceEntries \o TestEntries, root_fails |-> TRUE]}

txt_see_main == <<"s","e","e"," ">> \o p_src_main_py
txt_test_fails == p_tests_test_main_py \o <<" ","f","a","i","l","s">>
txt_logo == p_docs_logo_png \o <<" ","i","s"," ","b","l","u","r","r","y">>
txt_readme_missing == p_README_md \o <<" ","a","n","d"," ">> \o p_missing_py
txt_version_init == p_version_py \o <<",", " ">> \o p_pkg_init_py
txt_run_main ==
    <<"r","u","n"," ", Backquote>> \o p_src_main_py \o <<Backquote>>
txt_also_tests == <<"a","l","s","o"," ">> \o p_tests_test_main_py

(***************************************************************************)
(* Template files: a Markdown template with two headers and an issue form  *)
(* in YAML, which has no header at the start of a line.                    *)
(***************************************************************************)
md_bug_report ==
    <<"-","-","-",Newline,"n","a","m","e",":"," ","B","u","g",Newline,"-","-",
      "-",Newline,"#","#"," ","S","t","e","p","s",Newline,"1","."," ",".",".",
      ".",Newline,Newline,"#","#"," "," ","E","x","p","e","c","t","e","d"," ",
      Newline,"w","h","a","t",Newline,"#","#","#"," ","N","o","t","e","s",
      Newline>>
yml_bug_form ==
    <<"n","a","m","e",":"," ","B","u","g",Newline,"b","o","d","y",":"," ","#",
      "#"," ","S","t","e","p","s",Newline>>

\* templates[template_name] = self.parse_issue_template(template_content)
Parsed(template_name, template_content) ==
    [name |-> template_name,
     sections |-> parse_issue_template(template_content)]

bug_form == Parsed("bug_form", yml_bug_form)

AnalysisTemplateSets ==
    TemplateSets
        \cup {<<bug_form>>, <<bug_form, bug_report>>,
              <<Parsed("bug_report", md_bug_report), bug_form>>}

AnalysisBodies ==
    {NoBody, SomeBody(<<>>), SomeBody(txt_see_main), SomeBody(txt_test_fails),
     SomeBody(txt_logo), SomeBody(txt_readme_missing),
     SomeBody(txt_version_init), SomeBody(txt_run_main),
     SomeBody(txt_steps_expected), SomeBody(txt_all)}

\* issue.get_comments(): the comment bodies
CommentLists ==
    {<<>>, <<NoBody>>, <<SomeBody(<<>>)>>, <<SomeBody(txt_also_tests)>>,
     <<NoBody, SomeBody(<<>>)>>,
     <<SomeBody(<<>>), SomeBody(txt_also_tests)>>}

AnalysisClosed == <<[number |-> 2, title |-> t_fix_login]>>

InitAnalyze ==
    /\ \E body \in AnalysisBodies, comment_bodies \in CommentLists :
          issue = [number |-> 1, title |-> t_fix_login, body |-> body,
                   labels |-> <<>>, comments |-> Len(comment_bodies),
                   created_at |-> 0, comment_bodies |-> comment_bodies]
    /\ issue_templates \in AnalysisTemplateSets
    /\ now = 0
    /\ score = 0
    /\ scored_at = -1
    /\ category = NotRun
    /\ closed_issues = AnalysisClosed
    /\ limit = DefaultLimit
    /\ similar_issues = <<>>
    /\ similar_done = FALSE
    /\ repo \in Repos
    /\ analysis = NoAnalysis
    /\ previous = NoAnalysis
    /\ MainIdle
    /\ UnitIdle
    /\ WalkIdle

\* a call analyze_issue(repo, issue, issue_templates); the set of mentions
\* is iterated in some order
AnalyzeIssue ==
    /\ previous = NoAnalysis
    /\ \E order \in Orders(Mentions(issue)) :
          analysis' = analyze_issue(repo, issue, issue_templates,
                                    closed_issues, order)
    /\ previous' = analysis
    /\ UNCHANGED <<unit_vars, walk_vars,
                   issue, issue_templates, now, score, scored_at, category,
                   closed_issues, limit, similar_issues, similar_done, repo,
                   main_vars>>

NextAnalyze == AnalyzeIssue

SpecAnalyze == InitAnalyze /\ [][NextAnalyze]_vars

analysed == analysis.status # "none"
completed == analysis.status = "ok"


(***************************************************************************)
(* Claims C11..C13: the related files, the test files and the complexity   *)
(* map of an analysis record.                                              *)
(***************************************************************************)
\* the paths mentioned in the body or in at least one comment body
MentionedPaths ==
    find_mentioned_files(BodyOrEmpty(issue))
        \cup UNION {find_mentioned_files(c) : c \in Range(CommentTexts(issue))}

\* the paths whose lookup in the repository succeeds
FoundPaths == {e.path : e \in Range(repo.entries)}

RelatedFiles == Range(analysis.related_files)

\* C11: the related files of a completed analysis are exactly the paths
\* mentioned in the issue body or in a comment body whose lookup in the
\* repository succeeds, and no path is listed twice.
C11_RelatedFilesAreConfirmedMentions ==
    completed =>
        /\ RelatedFiles = MentionedPaths \cap FoundPaths
        /\ Cardinality(RelatedFiles) = Len(analysis.related_files)

\* a path mentioned only in a comment is related, a path mentioned in the
\* body and in a comment is listed once, a missing path is dropped
C11_Witness ==
    /\ completed
    /\ \E p \in RelatedFiles : p \notin find_mentioned_files(BodyOrEmpty(issue))
    /\ MentionedPaths \ FoundPaths # {}

C11_WitnessTwice ==
    /\ completed
    /\ \E p \in RelatedFiles :
          /\ p \in find_mentioned_files(BodyOrEmpty(issue))
          /\ \E c \in Range(CommentTexts(issue)) : p \in find_mentioned_files(c)

\* the test-file rule of the primary mode
RelatedTestFiles == {p \in RelatedFiles : IsTestPath(p)}

\* the top-level directories whose path contains 'test'
TestDirs ==
    {e.path : e \in {x \in Range(repo.entries) :
                        /\ x.type = "dir"
                        /\ LastSlash(x.path) = 0
                        /\ Contains(Lower(x.path), s_test)}}

\* the files below such a directory whose name is test_* or *_test.py
WalkedTestFiles ==
    {e.path : e \in {x \in Range(repo.entries) :
                        /\ x.type = "file"
                        /\ IsTestName(Basename(x.path))
                        /\ \E d \in TestDirs : StartsWith(x.path, d \o <<"/">>)}}

\* C12 as stated: in every analysis record test_files is a subset of
\* related_files.
C12_TestFilesSubsetOfRelated ==
    completed => Range(analysis.test_files) \subseteq RelatedFiles

\* C12 as amended: test_files is the set of related files that satisfy the
\* test-file rule when there is one, and otherwise the set of files the
\* walk of the repository finds, related or not.
C12_TestFilesSubsetOrWalked ==
    completed =>
        IF RelatedTestFiles # {}
        THEN Range(analysis.test_files) = RelatedTestFiles
        ELSE Range(analysis.test_files) = WalkedTestFiles

C12_Witness ==
    /\ completed
    /\ RelatedTestFiles # {}
    /\ RelatedFiles \ RelatedTestFiles # {}

C12_WitnessWalked ==
    /\ completed
    /\ RelatedTestFiles = {}
    /\ analysis.test_files # <<>>

\* C13: in every analysis record the keys of code_area_complexity are
\* related files.
C13_ComplexityKeysAreRelated ==
    completed => DOMAIN analysis.code_area_complexity \subseteq RelatedFiles

C13_Witness ==
    /\ completed
    /\ DOMAIN analysis.code_area_complexity # {}
    /\ RelatedFiles \ DOMAIN analysis.code_area_complexity # {}


(***************************************************************************)
(* Claims C14 and C15: files that cannot be parsed, found or decoded.      *)
(***************************************************************************)
\* the file of the repository at a path
FileAt(p) == CHOOSE e \in Range(repo.entries) : e.path = p

\* C14: a related file that does not parse is absent from the complexity
\* map (never recorded, with 0 or otherwise) and the analysis completes; a
\* related file that parses is recorded with a number, 0 when it holds none
\* of the counted constructs.
C14_UnparseableUnknownParseableNumeric ==
    completed =>
        \A p \in RelatedFiles :
            IF FileAt(p).content.text.parses
            THEN /\ p \in DOMAIN analysis.code_area_complexity
                 /\ analysis.code_area_complexity[p] \in Nat
            ELSE p \notin DOMAIN analysis.code_area_complexity

\* the mentioned paths for which the lookup fails or the decode fails
AbsentContentPaths ==
    {p \in MentionedPaths :
        p \notin FoundPaths \/ ~FileAt(p).content.decodes}

\* C15: when a mentioned path is not found or its bytes do not decode,
\* analyze_issue completes and the path has no entry in the dependency
\* map, the test-case map or the complexity map.
C15_AbsentContentIsSkipped ==
    (analysed /\ AbsentContentPaths # {}) =>
        /\ completed
        /\ \A p \in AbsentContentPaths :
              /\ p \notin DOMAIN analysis.dependency_context
              /\ p \notin DOMAIN analysis.test_cases
              /\ p \notin DOMAIN analysis.code_area_complexity

(***************************************************************************)
(* Claims C17..C19: two analyses of one issue, the empty issue, and the    *)
(* template fields.                                                        *)
(***************************************************************************)
analysed_twice == previous.status # "none"

\* C17: a second analyze_issue of the same issue, templates and repository
\* ends as the first did and yields the same category, the same template
\* fields and the same related files as a set.
C17_SecondAnalysisAgrees ==
    analysed_twice =>
        /\ analysis.status = previous.status
        /\ completed =>
              /\ analysis.category = previous.category
              /\ analysis.follows_template = previous.follows_template
              /\ analysis.template_name = previous.template_name
              /\ analysis.filled_sections = previous.filled_sections
              /\ Range(analysis.related_files) = Range(previous.related_files)

\* two analyses that listed the related files in different orders, of an
\* issue that also mentions a missing path
C17_Witness ==
    /\ analysed_twice
    /\ completed
    /\ analysis.related_files # previous.related_files
    /\ MentionedPaths \ FoundPaths # {}

EmptyIssueText ==
    /\ Len(BodyOrEmpty(issue)) = 0
    /\ \A c \in Range(CommentTexts(issue)) : Len(c) = 0

\* C18: for an issue whose body and comment bodies are null or empty,
\* analyze_issue completes, the body of the record is the empty string and
\* the mentioned files, the related files and the code snippets are empty.
C18_EmptyIssueCompletes ==
    (analysed /\ EmptyIssueText) =>
        /\ completed
        /\ analysis.body = <<>>
        /\ MentionedPaths = {}
        /\ analysis.related_files = <<>>
        /\ analysis.code_snippets = <<>>

\* the bonus score_issue awards for the templates
TemplateBonus ==
    score_issue(issue, issue_templates, now) - score_issue(issue, <<>>, now)

\* C19: follows_template is true exactly when score_issue awards the +3
\* template bonus; template_name and filled_sections are the name and the
\* section headers of the first template whose headers are all contained in
\* the body, and without such a template the fields are false, None, [].
C19_TemplateFieldsAgreeWithScorer ==
    completed =>
        /\ analysis.follows_template = (TemplateBonus = 3)
        /\ IF SatisfiedTemplates # {}
           THEN LET first == issue_templates[First(SatisfiedTemplates)]
                IN  /\ analysis.follows_template
                    /\ analysis.template_name = first.name
                    /\ analysis.filled_sections = first.sections
           ELSE /\ ~analysis.follows_template
                /\ analysis.template_name = None
                /\ analysis.filled_sections = <<>>

\* a body that satisfies both templates, the second one listed first
C19_Witness ==
    /\ completed
    /\ Cardinality(SatisfiedTemplates) = 2
    /\ analysis.template_name = "feature_request"


(***************************************************************************)
(* get_open_issues                                                         *)
(***************************************************************************)
DefaultOpenLimit == 10

\* any(keyword.lower() in issue.title.lower() or
\*     keyword.lower() in (issue.body or '').lower() for keyword in keywords)
KeywordMatches(i, kws) ==
    \E k \in 1..Len(kws) :
        \/ Contains(Lower(i.title), Lower(kws[k]))
        \/ Contains(Lower(BodyOrEmpty(i)), Lower(kws[k]))

\* the loop that breaks once more than n issues are collected
RECURSIVE OpenLoopBreakLate(_, _, _, _, _, _, _)
OpenLoopBreakLate(issues, k, kws, n, templates, t, filtered_issues) ==
    IF k > Len(issues) THEN filtered_issues
    ELSE IF Len(filtered_issues) > n THEN filtered_issues
    ELSE IF Len(kws) > 0 /\ ~KeywordMatches(issues[k], kws)
         THEN OpenLoopBreakLate(issues, k + 1, kws, n, templates, t,
                                filtered_issues)
    ELSE OpenLoopBreakLate(issues, k + 1, kws, n, templates, t,
                  Append(filtered_issues,
                         <<issues[k], score_issue(issues[k], templates, t)>>))

\* for issue in issues, from position k
RECURSIVE OpenLoop(_, _, _, _, _, _, _)
OpenLoop(issues, k, kws, n, templates, t, filtered_issues) ==
    IF k > Len(issues) THEN filtered_issues
    ELSE IF Len(filtered_issues) >= n THEN filtered_issues
    ELSE IF Len(kws) > 0 /\ ~KeywordMatches(issues[k], kws)
         THEN OpenLoop(issues, k + 1, kws, n, templates, t, filtered_issues)
    ELSE OpenLoop(issues, k + 1, kws, n, templates, t,
                  Append(filtered_issues,
                         <<issues[k], score_issue(issues[k], templates, t)>>))

\* x placed into the sorted list s behind every element that is not smaller
RECURSIVE InsertByScore(_, _)
InsertByScore(s, x) ==
    IF s = <<>> THEN <<x>>
    ELSE IF x[2] > s[1][2] THEN <<x>> \o s
    ELSE <<s[1]>> \o InsertByScore(Tail(s), x)

RECURSIVE SortByScoreFrom(_, _, _)
SortByScoreFrom(s, k, sorted) ==
    IF k > Len(s) THEN sorted
    ELSE SortByScoreFrom(s, k + 1, InsertByScore(sorted, s[k]))

\* sorted(filtered_issues, key=lambda x: x[1], reverse=True)
sortByScore(s) == SortByScoreFrom(s, 1, <<>>)

\* the loop without the break: every matching issue is collected
RECURSIVE OpenLoopNoBreak(_, _, _, _, _, _, _)
OpenLoopNoBreak(issues, k, kws, n, templates, t, filtered_issues) ==
    IF k > Len(issues) THEN filtered_issues
    ELSE IF Len(kws) > 0 /\ ~KeywordMatches(issues[k], kws)
         THEN OpenLoopNoBreak(issues, k + 1, kws, n, templates, t,
                              filtered_issues)
    ELSE OpenLoopNoBreak(issues, k + 1, kws, n, templates, t,
                  Append(filtered_issues,
                         <<issues[k], score_issue(issues[k], templates, t)>>))

\* the function that ranks every match and cuts the ranking at the limit
get_open_issuesRankFirst(issues, kws, n, templates, t) ==
    Slice(sortByScore(OpenLoopNoBreak(issues, 1, kws, n, templates, t, <<>>)),
          n)

get_open_issues(issues, kws, n, templates, t) ==
    sortByScore(OpenLoop(issues, 1, kws, n, templates, t, <<>>))

(***************************************************************************)
(* Inputs of get_open_issues: streams of open issues whose scores differ   *)
(* and are not in order, keywords in another case than the text.           *)
(***************************************************************************)
MaxOpen == 3

kw_LOGIN == <<"L","O","G","I","N">>
kw_parser == <<"p","a","r","s","e","r">>
txt_Login_page == <<"L","o","g","i","n"," ","p","a","g","e">>

\* scores 4, 9, 0 and 7 without templates
OpenIssueKinds ==
    {[number |-> 0, title |-> t_fix_login, body |-> NoBody, labels |-> <<>>,
      comments |-> 0, created_at |-> 0],
     [number |-> 0, title |-> t_bug_in_parser,
      body |-> SomeBody(Pad(txt_broken, 50)),
      labels |-> <<lbl_Help_Wanted>>, comments |-> 5, created_at |-> 0],
     [number |-> 0, title |-> t_improve_speed,
      body |-> SomeBody(txt_Login_page), labels |-> <<>>, comments |-> 6,
      created_at |-> 1 - 90 * UnitsPerDay],
     [number |-> 0, title |-> t_how_to, body |-> SomeBody(txt_steps_expected),
      labels |-> <<lbl_Good_First_Issue>>, comments |-> 0,
      created_at |-> 1 - 90 * UnitsPerDay]}

\* the open issues carry the numbers 1, 2, ... in stream order
Numbered(kinds) ==
    [k \in 1..Len(kinds) |-> [kinds[k] EXCEPT !.number = k]]

OpenStreams ==
    UNION {{Numbered(kinds) : kinds \in [1..n -> OpenIssueKinds]} :
              n \in 0..MaxOpen}

KeywordLists == {<<>>, <<kw_LOGIN>>, <<kw_parser, kw_LOGIN>>}

NoIssue ==
    [number |-> 0, title |-> <<>>, body |-> NoBody, labels |-> <<>>,
     comments |-> 0, created_at |-> 0]

InitOpen ==
    /\ issue = NoIssue
    /\ issue_templates \in {<<>>, <<bug_report>>}
    /\ now = 0
    /\ score = 0
    /\ scored_at = -1
    /\ category = NotRun
    /\ closed_issues = <<>>
    /\ limit = 0
    /\ similar_issues = <<>>
    /\ similar_done = FALSE
    /\ AnalysisIdle
    /\ open_issues \in OpenStreams
    /\ keywords \in KeywordLists
    /\ open_limit \in {1, 2, DefaultOpenLimit}
    /\ selected = <<>>
    /\ report = <<>>
    /\ pc = "start"
    /\ UnitIdle
    /\ WalkIdle

\* a call get_open_issues(repo, labels, keywords, limit, issue_templates)
GetOpenIssues ==
    /\ pc = "start"
    /\ selected' = get_open_issues(open_issues, keywords, open_limit,
                                   issue_templates, now)
    /\ pc' = "loop"
    /\ UNCHANGED <<unit_vars, walk_vars,
                   issue, issue_templates, now, score, scored_at, category,
                   closed_issues, limit, similar_issues, similar_done,
                   analysis_vars, open_issues, keywords, open_limit, report>>

NextOpen == GetOpenIssues

SpecOpen == InitOpen /\ [][NextOpen]_vars

fetched == pc # "start" /\ pc # "idle"

(***************************************************************************)
(* Claim C20                                                               *)
(***************************************************************************)
\* the issue contains the keyword in its title or body, whatever the case
MentionsKeyword(i, kw) ==
    \E text \in {i.title, BodyOrEmpty(i)} :
        \E p \in 1..(Len(text) - Len(kw) + 1) :
            \A k \in 1..Len(kw) :
                LowerChar(text[p + k - 1]) = LowerChar(kw[k])

\* C20: get_open_issues returns at most `limit` pairs, higher score first,
\* each score the result of score_issue for that issue and the templates,
\* and with keywords every returned issue contains one of them,
\* case-insensitively, in its title or body.
C20_AtMostLimitRankedAndMatching ==
    fetched =>
        /\ Len(selected) <= open_limit
        /\ \A j, k \in 1..Len(selected) :
              j < k => selected[j][2] >= selected[k][2]
        /\ \A k \in 1..Len(selected) :
              /\ selected[k][1] \in Range(open_issues)
              /\ selected[k][2]
                    = score_issue(selected[k][1], issue_templates, now)
              /\ keywords # <<>> =>
                    \E kw \in Range(keywords) :
                        MentionsKeyword(selected[k][1], kw)

\* the limit cut the stream short, a keyword matched in another case, and
\* the sort moved a later issue to the front
C20_Witness ==
    /\ fetched
    /\ Len(selected) = open_limit
    /\ Len(selected) = 2
    /\ Len(open_issues) = 3
    /\ keywords # <<>>
    /\ selected[1][1].number > selected[2][1].number
    /\ selected[1][2] > selected[2][2]


(***************************************************************************)
(* main: the issues are fetched with the default limit, then each is       *)
(* analysed and written to the report inside one with block, without any   *)
(* exception handler: an exception that leaves analyze_issue leaves main.  *)
(***************************************************************************)
MainIssueKinds ==
    {[number |-> 0, title |-> t_fix_login, body |-> NoBody, labels |-> <<>>,
      comments |-> 0, created_at |-> 0, comment_bodies |-> <<>>],
     [number |-> 0, title |-> t_bug_in_parser, body |-> SomeBody(txt_test_fails),
      labels |-> <<lbl_Help_Wanted>>, comments |-> 1, created_at |-> 0,
      comment_bodies |-> <<SomeBody(txt_see_main)>>],
     [number |-> 0, title |-> t_improve_speed, body |-> SomeBody(txt_logo),
      labels |-> <<>>, comments |-> 0, created_at |-> 0,
      comment_bodies |-> <<>>]}

MainStreams ==
    UNION {{Numbered(kinds) : kinds \in [1..n -> MainIssueKinds]} :
              n \in 0..MaxOpen}

MainRepos == [entries : {SourceEntries \o TestEntries}, root_fails : BOOLEAN]

InitMain ==
    /\ issue = NoIssue
    /\ issue_templates = <<bug_report>>
    /\ now = 0
    /\ score = 0
    /\ scored_at = -1
    /\ category = NotRun
    /\ closed_issues = AnalysisClosed
    /\ limit = DefaultLimit
    /\ similar_issues = <<>>
    /\ similar_done = FALSE
    /\ repo \in MainRepos
    /\ analysis = NoAnalysis
    /\ previous = NoAnalysis
    /\ open_issues \in MainStreams
    /\ keywords = <<>>
    /\ open_limit = DefaultOpenLimit
    /\ selected = <<>>
    /\ report = <<>>
    /\ pc = "start"
    /\ UnitIdle
    /\ WalkIdle

\* one pass of the loop `for issue, score in issues`: analyze_issue, then
\* the writes of the issue's section
AnalyzeNext ==
    /\ pc = "loop"
    /\ Len(report) < Len(selected)
    /\ LET next == selected[Len(report) + 1]
       IN  /\ issue' = next[1]
           /\ \E order \in Orders(Mentions(next[1])) :
                 analysis' = analyze_issue(repo, next[1], issue_templates,
                                           closed_issues, order)
           /\ IF analysis'.status = "ok"
              THEN /\ report' = Append(report,
                                   [issue_number |-> next[1].number,
                                    score |-> next[2],
                                    category |-> analysis'.category])
                   /\ pc' = pc
              ELSE /\ report' = report
                   /\ pc' = "raised"
    /\ UNCHANGED <<unit_vars, walk_vars,
                   issue_templates, now, score, scored_at, category,
                   closed_issues, limit, similar_issues, similar_done, repo,
                   previous, open_issues, keywords, open_limit, selected>>

\* the loop is over, the file is closed
Finish ==
    /\ pc = "loop"
    /\ Len(report) = Len(selected)
    /\ pc' = "done"
    /\ UNCHANGED <<unit_vars, walk_vars,
                   issue, issue_templates, now, score, scored_at, category,
                   closed_issues, limit, similar_issues, similar_done,
                   analysis_vars, open_issues, keywords, open_limit, selected,
                   report>>

NextMain == GetOpenIssues \/ AnalyzeNext \/ Finish

SpecMain == InitMain /\ [][NextMain]_vars

terminated == pc \in {"done", "raised"}

(***************************************************************************)
(* Claim C16                                                               *)
(***************************************************************************)
\* the analysis of the issue completes, in whatever order its mentions are
\* iterated
Analysable(i) ==
    \A order \in Orders(Mentions(i)) :
        analyze_issue(repo, i, issue_templates, closed_issues, order).status
            = "ok"

Written == {report[k].issue_number : k \in 1..Len(report)}

\* C16: when main has ended, every selected issue whose own analysis does
\* not fail has been analysed and written to the report, whatever happened
\* to the issues before it.
C16_BatchNeverAborts ==
    terminated =>
        \A k \in 1..Len(selected) :
            Analysable(selected[k][1]) => selected[k][1].number \in Written

(***************************************************************************)
(* Claim C26, checked under SpecScore.                                     *)
(***************************************************************************)
\* the highest tier of every signal of the scorer holds for the recorded call
AllTopSignals ==
    /\ HasApproachableLabel
    /\ Len(BodyOrEmpty(issue)) \in 100..500
    /\ issue.comments = 0
    /\ WholeDays(scored_at) < 30
    /\ SatisfiedTemplates # {}

\* C26: the result of score_issue is an integer in 0..15, and it is 15 only
\* when the label, the 100..500 body length, the zero comments, the age
\* under 30 days and the template condition all hold.
C26_ScoreRangeAndMaximum ==
    scored =>
        /\ score \in 0..15
        /\ score = 15 => AllTopSignals

\* a call that returned the maximum, with two templates satisfied
C26_Witness ==
    /\ scored
    /\ score = 15
    /\ Cardinality(SatisfiedTemplates) = 2

\* a call that returned 0
C26_WitnessZero ==
    /\ scored
    /\ score = 0
    /\ issue_templates # <<>>

(***************************************************************************)
(* Claim C27, checked under SpecOpen.                                      *)
(***************************************************************************)
\* the positions in the stream of the issues that pass the keyword filter
Matching ==
    {k \in 1..Len(open_issues) :
        keywords # <<>> =>
            \E kw \in Range(keywords) : MentionsKeyword(open_issues[k], kw)}

\* the positions of the first `limit` of them in fetch order
FirstMatching ==
    {k \in Matching : Cardinality({j \in Matching : j <= k}) <= open_limit}

\* the position in the stream of a returned issue
FetchPosition(i) == CHOOSE k \in 1..Len(open_issues) : open_issues[k] = i

ScoreAt(k) == score_issue(open_issues[k], issue_templates, now)

C28_NeverReturnsItself ==
    similar_done =>
        \A k \in 1..Len(similar_issues) :
            similar_issues[k][1].number # issue.number

\* the closed stream holds the analysed issue itself with an identical
\* title, and another closed issue with that title is returned
C28_Witness ==
    /\ similar_done
    /\ \E c \in Range(closed_issues) :
          c.number = issue.number /\ c.title = issue.title
    /\ \E k \in 1..Len(similar_issues) :
          /\ similar_issues[k][1].title = issue.title
          /\ similar_issues[k][2] = Fraction(1, 1)
    /\ Len(similar_issues) < limit

(***************************************************************************)
(* Claim C29, checked under SpecClassify.                                  *)
(***************************************************************************)
s_enhancement == <<"e","n","h","a","n","c","e","m","e","n","t">>
s_improve == <<"i","m","p","r","o","v","e">>
s_optimization == <<"o","p","t","i","m","i","z","a","t","i","o","n">>
s_performance == <<"p","e","r","f","o","r","m","a","n","c","e">>

OwnEnhancementTriggers == {s_improve, s_optimization, s_performance}

HasEnhancementLabel == \E l \in Range(issue.labels) : Lower(l) = s_enhancement

\* C29: an issue with a label equal, whatever the case, to 'enhancement'
\* and no label equal to a bug trigger is classified 'feature request';
\* the category 'enhancement' is returned only when 'improve',
\* 'optimization' or 'performance' is a label or occurs in the title or
\* the body.
C29_EnhancementLabelIsFeatureRequest ==
    classified =>
        /\ (HasEnhancementLabel /\ ~LabelTriggers(issue, "bug"))
              => category = "feature request"
        /\ category = "enhancement" =>
              \/ \E l \in Range(issue.labels) :
                    Lower(l) \in OwnEnhancementTriggers
              \/ \E kw \in OwnEnhancementTriggers :
                    \/ Contains(Lower(issue.title), kw)
                    \/ Contains(Lower(BodyOrEmpty(issue)), kw)

\* an issue labelled 'Enhancement' whose title asks to improve something
C29_Witness ==
    /\ classified
    /\ HasEnhancementLabel
    /\ \E l \in Range(issue.labels) : l # Lower(l) /\ Lower(l) = s_enhancement
    /\ Contains(Lower(issue.title), s_improve)
    /\ category = "feature request"

\* an issue classified 'enhancement' through a label
C29_WitnessEnhancement ==
    /\ classified
    /\ category = "enhancement"
    /\ \E l \in Range(issue.labels) : Lower(l) = s_performance

(***************************************************************************)
(* calculate_code_complexity on its own: source texts whose syntax trees   *)
(* nest the counted constructs and hold constructs the visitor has no      *)
(* method for (boolean operators, conditional expressions, async def).     *)
(***************************************************************************)
MaxDepth == 2
MaxStatements == 1

\* a and b, a or b, a if b else c, as expression statements; pass
SimpleStatements ==
    {Node("Pass", <<>>),
     Node("Expr", <<Node("BoolOp", <<Node("And", <<>>)>>)>>),
     Node("Expr", <<Node("BoolOp", <<Node("Or", <<>>)>>)>>),
     Node("Expr", <<Node("IfExp", <<>>)>>)}

CompoundTypes == CountedNodes \cup {"AsyncFunctionDef"}

\* the statements nested at most d deep
RECURSIVE Statements(_)
Statements(d) ==
    IF d = 0 THEN SimpleStatements
    ELSE Statements(d - 1)
            \cup {Node(t, <<s>>) : t \in CompoundTypes, s \in Statements(d - 1)}

Modules ==
    UNION {{Node("Module", body) : body \in [1..n -> Statements(MaxDepth)]} :
              n \in 0..MaxStatements}

SourceTexts ==
    {Text(10, TRUE, tree, <<>>, <<>>) : tree \in Modules}
        \cup {src_main, src_test_main, src_readme}

InitComplexity ==
    /\ issue = NoIssue
    /\ issue_templates = <<>>
    /\ now = 0
    /\ score = 0
    /\ scored_at = -1
    /\ category = NotRun
    /\ closed_issues = <<>>
    /\ limit = 0
    /\ similar_issues = <<>>
    /\ similar_done = FALSE
    /\ AnalysisIdle
    /\ MainIdle
    /\ source \in SourceTexts
    /\ complexity = <<>>
    /\ suggestions = <<>>
    /\ WalkIdle

\* a call calculate_code_complexity(content)
CalculateComplexity ==
    /\ complexity = <<>>
    /\ complexity' = <<calculate_code_complexity(source)>>
    /\ UNCHANGED <<issue, issue_templates, now, score, scored_at, category,
                   closed_issues, limit, similar_issues, similar_done,
                   analysis_vars, main_vars, source, suggestions, walk_vars>>

NextComplexity == CalculateComplexity

SpecComplexity == InitComplexity /\ [][NextComplexity]_vars

measured == complexity # <<>>

(***************************************************************************)
(* Claim C22                                                               *)
(***************************************************************************)
\* the types of the nodes of a tree, one entry per node
RECURSIVE NodeTypes(_)
RECURSIVE ChildTypes(_, _)
ChildTypes(children, k) ==
    IF k > Len(children) THEN <<>>
    ELSE NodeTypes(children[k]) \o ChildTypes(children, k + 1)

NodeTypes(node) == <<node.type>> \o ChildTypes(node.children, 1)

\* the number of nodes of the tree of the source whose type is in S
Constructs(S) ==
    Cardinality({k \in 1..Len(NodeTypes(source.tree)) :
                    NodeTypes(source.tree)[k] \in S})

StatementConstructs ==
    Constructs({"FunctionDef", "ClassDef", "If", "While", "For"})

\* C22 (as claimed): for a parseable source text the file-aggregate
\* complexity is a base of 1 plus one for every function definition, class
\* definition, if, while and for construct of the tree, nested ones
\* included, and nothing for the logical operators and, or.
C22_BaseOnePlusConstructs ==
    (measured /\ source.parses) =>
        /\ ~complexity[1].none
        /\ complexity[1].value = 1 + StatementConstructs

\* C22 (amended): for a parseable source text the file-aggregate complexity
\* is the number of FunctionDef, ClassDef, If, While and For nodes of the
\* tree, nested ones included, counted from 0; the logical operators and,
\* or count nothing.
C22_ConstructsFromZero ==
    (measured /\ source.parses) =>
        /\ ~complexity[1].none
        /\ complexity[1].value = StatementConstructs

\* a tree with a nested counted construct and a logical operator
C22_Witness ==
    /\ measured
    /\ source.parses
    /\ complexity[1].value = 2
    /\ Constructs({"And", "Or"}) > 0
    /\ source.tree.children[1].type \in CountedNodes
    /\ source.tree.children[1].children[1].type \in CountedNodes

\* a parseable text with none of the counted constructs
C22_WitnessZero ==
    /\ measured
    /\ source.parses
    /\ complexity[1] = Known(0)
    /\ Constructs({"And", "Or", "IfExp", "AsyncFunctionDef"}) = 3

(***************************************************************************)
(* suggest_automated_fix on its own: analysis records with complexities    *)
(* below, at and above the threshold, in every order of the related files. *)
(* Only the keys the function reads are given.                             *)
(***************************************************************************)
SuggestFiles == {p_src_main_py, p_version_py, p_tests_test_main_py}
SuggestComplexities == {0, 10, 11}
SuggestCategories ==
    {"bug", "feature request", "documentation", "enhancement", "other"}

SuggestAnalyses ==
    UNION {UNION {{[status |-> "ok",
                    category |-> c,
                    related_files |-> files,
                    code_area_complexity |-> cx,
                    test_cases |-> cases] :
                      c \in SuggestCategories,
                      cx \in [keys -> SuggestComplexities],
                      cases \in {EmptyDict,
                                 Put(EmptyDict, p_tests_test_main_py,
                                     <<"test_main">>)}} :
                    keys \in SUBSET Range(files)} :
              files \in SeqsNoRep(SuggestFiles, Cardinality(SuggestFiles))}

InitSuggest ==
    /\ issue = NoIssue
    /\ issue_templates = <<>>
    /\ now = 0
    /\ score = 0
    /\ scored_at = -1
    /\ category = NotRun
    /\ closed_issues = <<>>
    /\ limit = 0
    /\ similar_issues = <<>>
    /\ similar_done = FALSE
    /\ repo = [entries |-> <<>>, root_fails |-> FALSE]
    /\ analysis \in SuggestAnalyses
    /\ previous = NoAnalysis
    /\ MainIdle
    /\ UnitIdle
    /\ WalkIdle

\* a call suggest_automated_fix(issue_analysis)
SuggestFix ==
    /\ suggestions = <<>>
    /\ suggestions' = <<suggest_automated_fix(analysis)>>
    /\ UNCHANGED <<issue, issue_templates, now, score, scored_at, category,
                   closed_issues, limit, similar_issues, similar_done,
                   analysis_vars, main_vars, source, complexity, walk_vars>>

NextSuggest == SuggestFix

SpecSuggest == InitSuggest /\ [][NextSuggest]_vars

suggested == suggestions # <<>>

(***************************************************************************)
(* Claims C23 and C24                                                      *)
(***************************************************************************)
\* the first position at which sep occurs in text, 0 if it does not
FirstIndex(text, sep) ==
    LET hits == {p \in 1..(Len(text) - Len(sep) + 1) :
                    SubSeq(text, p, p + Len(sep) - 1) = sep}
    IN  IF hits = {} THEN 0 ELSE CHOOSE p \in hits : \A q \in hits : p <= q

\* the pieces of text between the occurrences of sep
RECURSIVE Split(_, _)
Split(text, sep) ==
    LET p == FirstIndex(text, sep)
    IN  IF p = 0 THEN <<text>>
        ELSE <<SubSeq(text, 1, p - 1)>>
                \o Split(SubSeq(text, p + Len(sep), Len(text)), sep)

IsRefactoringAdvice(suggestion) ==
    /\ Len(suggestion) >= Len(msg_refactor)
    /\ SubSeq(suggestion, 1, Len(msg_refactor)) = msg_refactor

\* the files a refactoring suggestion names
NamedFiles(suggestion) ==
    Split(SubSeq(suggestion, Len(msg_refactor) + 1, Len(suggestion)),
          <<",", " ">>)

\* the files of the complexity map above the threshold
Flagged ==
    {f \in DOMAIN analysis.code_area_complexity :
        analysis.code_area_complexity[f] > 10}

\* C23: the refactoring suggestion is emitted exactly when some file of the
\* complexity map has a complexity strictly greater than 10, and it names
\* exactly the files above 10, each once; a file at exactly 10 is not named.
C23_RefactoringNamesFilesAboveTen ==
    suggested =>
        LET refactorings == {k \in 1..Len(suggestions[1]) :
                                IsRefactoringAdvice(suggestions[1][k])}
        IN  /\ (refactorings # {}) <=> (Flagged # {})
            /\ Cardinality(refactorings) <= 1
            /\ \A k \in refactorings :
                  /\ Range(NamedFiles(suggestions[1][k])) = Flagged
                  /\ Len(NamedFiles(suggestions[1][k])) = Cardinality(Flagged)

\* two files above the threshold are named and a file at exactly 10 is not
C23_Witness ==
    /\ suggested
    /\ Cardinality(Flagged) = 2
    /\ \E f \in DOMAIN analysis.code_area_complexity :
          analysis.code_area_complexity[f] = 10
    /\ \E k \in 1..Len(suggestions[1]) :
          /\ IsRefactoringAdvice(suggestions[1][k])
          /\ Len(NamedFiles(suggestions[1][k])) = 2

\* only files at or below 10: no refactoring suggestion
C23_WitnessNone ==
    /\ suggested
    /\ Flagged = {}
    /\ \E f \in DOMAIN analysis.code_area_complexity :
          analysis.code_area_complexity[f] = 10
    /\ \A k \in 1..Len(suggestions[1]) :
          ~IsRefactoringAdvice(suggestions[1][k])

\* 1 for a category advice, 2 for the refactoring advice, 3 for a test
\* advice, 0 for any other text
Rank(suggestion) ==
    IF suggestion \in {msg_bug, msg_feature_request, msg_documentation} THEN 1
    ELSE IF IsRefactoringAdvice(suggestion) THEN 2
    ELSE IF suggestion \in {msg_add_tests, msg_update_tests} THEN 3
    ELSE 0

\* C24: every list returned by suggest_automated_fix has 1 to 3 elements in
\* the order category advice, refactoring advice, test advice; exactly one
\* is a test advice and it is the last: 'add new test cases' when the
\* test_cases map is empty, 'update existing test cases' otherwise.
C24_TestAdviceLast ==
    suggested =>
        LET list == suggestions[1]
        IN  /\ Len(list) \in 1..3
            /\ \A k \in 1..Len(list) : Rank(list[k]) # 0
            /\ \A j, k \in 1..Len(list) :
                  j < k => Rank(list[j]) < Rank(list[k])
            /\ Cardinality({k \in 1..Len(list) : Rank(list[k]) = 3}) = 1
            /\ list[Len(list)] =
                  (IF DOMAIN analysis.test_cases = {}
                     THEN msg_add_tests ELSE msg_update_tests)

\* all three kinds of advice, the test advice being 'update'
C24_Witness ==
    /\ suggested
    /\ Len(suggestions[1]) = 3
    /\ suggestions[1][3] = msg_update_tests
    /\ analysis.category = "documentation"

\* the test advice alone
C24_WitnessAlone ==
    /\ suggested
    /\ suggestions[1] = <<msg_add_tests>>
    /\ DOMAIN analysis.code_area_complexity # {}

(***************************************************************************)
(* Claim C30, checked under SpecAnalyze.                                   *)
(***************************************************************************)
\* the templates of the set that declare no section header
Headerless ==
    {k \in 1..Len(issue_templates) : issue_templates[k].sections = <<>>}

\* C30: a template that declares no section header is satisfied by every
\* issue body, the empty one included: when no template in front of it is
\* satisfied, score_issue adds the template bonus of 3 and analyze_issue
\* sets follows_template with the name of that template and an empty list
\* of filled sections.
C30_HeaderlessTemplateAlwaysMatches ==
    completed =>
        \A k \in Headerless :
            /\ k \in SatisfiedTemplates
            /\ TemplateBonus = 3
            /\ analysis.follows_template
            /\ (\A j \in 1..(k - 1) : j \notin SatisfiedTemplates) =>
                  /\ analysis.template_name = issue_templates[k].name
                  /\ analysis.filled_sections = <<>>

\* an issue without a body matched by the parsed issue form, which stands
\* behind a template the body does not satisfy
C30_Witness ==
    /\ completed
    /\ issue.body = NoBody
    /\ issue_templates = <<bug_report, Parsed("bug_form", yml_bug_form)>>
    /\ Parsed("bug_report", md_bug_report) = bug_report
    /\ analysis.template_name = "bug_form"
    /\ analysis.filled_sections = <<>>
    /\ analysis.follows_template

(***************************************************************************)
(* identify_test_files and find_test_files_in_dir, step by step            *)
(*                                                                         *)
(* The call stack is explicit: one frame for the loop of                   *)
(* identify_test_files over the root listing and one frame for each call   *)
(* of find_test_files_in_dir that has not returned.  A step is one pass    *)
(* of the innermost loop or the return of the innermost call; every        *)
(* repo.get_contents call is logged.                                       *)
(***************************************************************************)
Frame(dir_path, contents, root) ==
    [dir_path |-> dir_path, contents |-> contents, k |-> 1,
     test_files |-> <<>>, root |-> root]

\* the recursion that lists the directory it is in once more
SubdirectorySame(dir_path, content) == dir_path

\* the argument of the recursive call: content.path
Subdirectory(dir_path, content) == content.path

\* the loop of the frame calls find_test_files_in_dir for the entry
Descends(frame, content) ==
    /\ content.type = "dir"
    /\ frame.root => Contains(Lower(content.path), s_test)

\* the loop of the frame appends the entry to test_files
Collects(frame, content) ==
    /\ ~frame.root
    /\ content.type = "file"
    /\ IsTestName(Basename(content.path))

(***************************************************************************)
(* Repositories for the walk: every parent-closed part of a hierarchy with *)
(* a nested test directory, test files three levels deep and files in a    *)
(* test directory that are not named like tests.                           *)
(***************************************************************************)
p_src_tests == p_src \o <<"/","t","e","s","t","s">>
p_src_tests_test_util_py ==
    p_src_tests \o <<"/","t","e","s","t","_","u","t","i","l",".","p","y">>
p_tests_conftest_py ==
    p_tests \o <<"/","c","o","n","f","t","e","s","t",".","p","y">>
p_tests_unit == p_tests \o <<"/","u","n","i","t">>
p_tests_unit_parser_test_py ==
    p_tests_unit
        \o <<"/","p","a","r","s","e","r","_","t","e","s","t",".","p","y">>
p_tests_unit_data == p_tests_unit \o <<"/","d","a","t","a">>
p_tests_unit_data_sample_txt ==
    p_tests_unit_data \o <<"/","s","a","m","p","l","e",".","t","x","t">>

Hierarchy ==
    <<Dir(p_src),
      File(p_src_main_py, Decodable(src_main)),
      Dir(p_src_tests),
      File(p_src_tests_test_util_py, Decodable(src_test_main)),
      Dir(p_tests),
      File(p_tests_conftest_py, Decodable(src_version)),
      File(p_tests_test_main_py, Decodable(src_test_main)),
      Dir(p_tests_unit),
      File(p_tests_unit_parser_test_py, Decodable(src_test_main)),
      Dir(p_tests_unit_data),
      File(p_tests_unit_data_sample_txt, Decodable(src_readme))>>

\* every entry of the part lies in the root or in a directory of the part
ParentClosed(part) ==
    \A k \in part :
        \/ Dirname(Hierarchy[k].path) = <<>>
        \/ \E d \in part : /\ Hierarchy[d].type = "dir"
                           /\ Hierarchy[d].path = Dirname(Hierarchy[k].path)

WalkTrees ==
    {SelectSeq([k \in 1..Len(Hierarchy) |-> [entry |-> Hierarchy[k],
                                             kept |-> k \in part]],
               LAMBDA x : x.kept) :
        part \in {q \in SUBSET (1..Len(Hierarchy)) : ParentClosed(q)}}

WalkRepos ==
    {[entries |-> [k \in 1..Len(tree) |-> tree[k].entry],
      root_fails |-> fails] :
        tree \in WalkTrees, fails \in BOOLEAN}

\* the related files of an issue: confirmed paths of the repository
RelatedLists(r) ==
    {<<>>} \cup {<<e.path>> : e \in {x \in Range(r.entries) : x.type = "file"}}

InitWalk ==
    /\ issue = NoIssue
    /\ issue_templates = <<>>
    /\ now = 0
    /\ score = 0
    /\ scored_at = -1
    /\ category = NotRun
    /\ closed_issues = <<>>
    /\ limit = 0
    /\ similar_issues = <<>>
    /\ similar_done = FALSE
    /\ repo \in WalkRepos
    /\ analysis = NoAnalysis
    /\ previous = NoAnalysis
    /\ MainIdle
    /\ UnitIdle
    /\ related \in RelatedLists(repo)
    /\ frames = <<>>
    /\ listing_calls = <<>>
    /\ walk_result = <<>>
    /\ walk_pc = "start"

\* identify_test_files is called: the subset of the related files, and the
\* listing of the root when the subset is empty
StartWalk ==
    /\ walk_pc = "start"
    /\ LET test_files == SelectSeq(related, IsTestPath)
           contents == get_contents(repo, <<>>)
       IN  IF Len(test_files) > 0
           THEN /\ walk_result' = test_files
                /\ walk_pc' = "done"
                /\ UNCHANGED <<frames, listing_calls>>
           ELSE /\ listing_calls' = Append(listing_calls, <<>>)
                /\ walk_result' = walk_result
                /\ IF contents.error # NoError
                   THEN /\ walk_pc' = "raised"
                        /\ frames' = frames
                   ELSE /\ walk_pc' = "walk"
                        /\ frames' = <<Frame(<<>>, contents.value, TRUE)>>
    /\ UNCHANGED <<issue, issue_templates, now, score, scored_at, category,
                   closed_issues, limit, similar_issues, similar_done,
                   analysis_vars, main_vars, unit_vars, related>>

\* one pass of the innermost loop: the entry is walked into, collected or
\* passed over
VisitEntry ==
    /\ walk_pc = "walk"
    /\ LET top == frames[Len(frames)]
       IN  /\ top.k <= Len(top.contents)
           /\ LET content == top.contents[top.k]
                  advanced == [frames EXCEPT ![Len(frames)].k = @ + 1]
                  dir_path == Subdirectory(top.dir_path, content)
              IN  IF Descends(top, content)
                  THEN /\ listing_calls' = Append(listing_calls, dir_path)
                       /\ frames' =
                             Append(advanced,
                                    Frame(dir_path,
                                          get_contents(repo, dir_path).value,
                                          FALSE))
                  ELSE /\ listing_calls' = listing_calls
                       /\ frames' =
                             IF Collects(top, content)
                             THEN [advanced EXCEPT
                                     ![Len(frames)].test_files =
                                         Append(@, content.path)]
                             ELSE advanced
    /\ UNCHANGED <<issue, issue_templates, now, score, scored_at, category,
                   closed_issues, limit, similar_issues, similar_done,
                   analysis_vars, main_vars, unit_vars, related, walk_result,
                   walk_pc>>

\* the innermost loop is over: find_test_files_in_dir returns its list to
\* the caller, which extends its own, or identify_test_files returns
ReturnFromDir ==
    /\ walk_pc = "walk"
    /\ LET top == frames[Len(frames)]
           callers == SubSeq(frames, 1, Len(frames) - 1)
       IN  /\ top.k > Len(top.contents)
           /\ IF Len(frames) = 1
              THEN /\ walk_result' = top.test_files
                   /\ walk_pc' = "done"
                   /\ frames' = <<>>
              ELSE /\ frames' = [callers EXCEPT
                                   ![Len(callers)].test_files =
                                       @ \o top.test_files]
                   /\ UNCHANGED <<walk_result, walk_pc>>
    /\ UNCHANGED <<issue, issue_templates, now, score, scored_at, category,
                   closed_issues, limit, similar_issues, similar_done,
                   analysis_vars, main_vars, unit_vars, related,
                   listing_calls>>

NextWalk == StartWalk \/ VisitEntry \/ ReturnFromDir

SpecWalk == InitWalk /\ [][NextWalk]_vars

\* the interpreter goes on executing the function
SpecWalkFair == SpecWalk /\ WF_vars(NextWalk)

walked == walk_pc = "done"

\* the steps compute what the recursive definition computes
WalkAgreesWithRecursion ==
    walked => Return(walk_result) = identify_test_files(repo, related)

(***************************************************************************)
(* Claims C21 and C25, checked under SpecWalk and SpecWalkFair.            *)
(***************************************************************************)
Directories == {e.path : e \in {x \in Range(repo.entries) : x.type = "dir"}}
Files == {e.path : e \in {x \in Range(repo.entries) : x.type = "file"}}

\* path lies in the directory dir or below it
Below(path, dir) == StartsWith(path, dir \o <<"/">>)

\* the files below a directory, at any depth, whose name contains 'test'
FilesUnderTestDirectories ==
    {f \in Files :
        \E d \in Directories :
            Contains(Lower(Basename(d)), s_test) /\ Below(f, d)}

\* the subset of the related files that satisfies the test-file rule
RelatedTests == SelectSeq(related, IsTestPath)

\* no listing is requested when a related file is a test file
NoListingWhenRelatedTests ==
    (walk_pc # "start" /\ RelatedTests # <<>>) => listing_calls = <<>>

\* C21: when no related file is a test file, the fallback walk collects
\* every file that lies under a directory whose name contains 'test' and
\* satisfies the rule of the primary mode (the path contains 'test' in any
\* case, or the name starts with 'test_' or ends with '_test.py'); when a
\* related file is a test file no directory listing is requested.
C21_FallbackCollectsFilesUnderTestDirectories ==
    walked =>
        IF RelatedTests = <<>>
        THEN Range(walk_result) =
                {f \in FilesUnderTestDirectories :
                    IsTestPath(f) \/ IsTestName(Basename(f))}
        ELSE listing_calls = <<>>

\* the directories at or below a directory of the root whose path contains
\* 'test': the starting directories of the walk and what they reach
ReachableDirectories ==
    {d \in Directories :
        \E start \in Directories :
            /\ Dirname(start) = <<>>
            /\ Contains(Lower(start), s_test)
            /\ d = start \/ Below(d, start)}

\* how often the directory was listed
Listings(dir_path) ==
    Cardinality({k \in 1..Len(listing_calls) : listing_calls[k] = dir_path})

\* C25: on a finite tree-shaped hierarchy the walk terminates: no directory
\* is listed twice, when the walk has returned every directory reachable
\* from a starting directory was listed exactly once and nothing else but
\* the root was, and the walk does return.
C25_WalkListsOnceAndReturns ==
    /\ [](\A k \in 1..Len(listing_calls) : Listings(listing_calls[k]) = 1)
    /\ []((walked /\ RelatedTests = <<>>) =>
            /\ \A d \in ReachableDirectories : Listings(d) = 1
            /\ Range(listing_calls) = ReachableDirectories \cup {<<>>}
            /\ Len(listing_calls) <= Cardinality(Directories) + 1)
    /\ <>(walk_pc \in {"done", "raised"})

\* a walk that returned after listing a directory three levels deep and a
\* directory without any test file
C25_Witness ==
    /\ walked
    /\ Len(listing_calls) = 4
    /\ listing_calls[4] = p_tests_unit_data
    /\ Len(walk_result) = 2
    /\ p_src_tests \in Directories

====
